---------------------------- MODULE Spec2Model ----------------------------
(***************************************************************************)
(* A model of geo_tiler: the tile grid (src/src/tile.rs generate_grid),    *)
(* polygon clipping and clamping (clip_polygon_to_tiles, clamp_polygons),  *)
(* edge densification (src/src/geometry.rs densify_edges), the coordinate  *)
(* transforms (ll_to_cartesian, stereographic_projection,                  *)
(* rotate_points_to_south_pole), the sphere sampling (src/src/fibonacci.rs *)
(* fibonacci_sphere) and the mesh generator (src/src/mesh_generator.rs     *)
(* get_mesh_points, generate_polygon_feature_mesh).                        *)
(*                                                                         *)
(* Numbers.  An f64 is modelled as an exact rational <<n, d>> in lowest    *)
(* terms with d > 0; d = 0 encodes the non-finite values (NaN = <<0,0>>,   *)
(* +inf = <<1,0>>, -inf = <<-1,0>>).  The R operators compute without      *)
(* rounding.  Where the code decides on a computed value, the distance of  *)
(* densify_edges, the f64 operators below round every operation to the    *)
(* nearest f64, as the machine does.                                       *)
(***************************************************************************)
EXTENDS Integers, Sequences, FiniteSets, TLC

VARIABLES
    grid,      \* Vec<Tile>: the caller's tile collection
    op,        \* the operation that ran last ("none" before any)
    step,      \* the step handed to the last generate_grid
    polygon,   \* the polygon handed to the last operation that takes one
    lonlat,    \* the <<longitude, latitude>> handed to the last ll_to_cartesian
    result,    \* what the last operation returned: "Ok", an error kind, "panic"
    value,     \* the payload the last operation returned with its result
    clips,     \* the number of clip_polygon_to_tiles calls made
    input      \* the argument of the last call of stereographic_projection,
               \* rotate_points_to_south_pole or fibonacci_sphere; for the
               \* mesh generator, the answers of the containment primitive

vars == <<grid, op, step, polygon, lonlat, result, value, clips, input>>

---------------------------------------------------------------------------
(* Rational arithmetic standing for f64.                                   *)

Abs(n) == IF n < 0 THEN -n ELSE n

RECURSIVE GCD(_, _)
GCD(a, b) == IF b = 0 THEN a ELSE GCD(b, a % b)

\* The rational n/d (d # 0) in lowest terms with a positive denominator.
Rat(n, d) ==
    LET g == GCD(Abs(n), Abs(d))
        s == IF d < 0 THEN -1 ELSE 1
    IN  <<(s * n) \div g, (s * d) \div g>>

FromInt(i) == <<i, 1>>
NaN    == <<0, 0>>
PosInf == <<1, 0>>
NegInf == <<-1, 0>>

\* f64::is_finite
is_finite(a) == a[2] # 0

RAdd(a, b) == Rat(a[1] * b[2] + b[1] * a[2], a[2] * b[2])
RSub(a, b) == Rat(a[1] * b[2] - b[1] * a[2], a[2] * b[2])
RMul(a, b) == Rat(a[1] * b[1], a[2] * b[2])
RDiv(a, b) == Rat(a[1] * b[2], a[2] * b[1])
\* a < b and a <= b on f64: false whenever an operand is NaN; two
\* infinities are ordered by their signs.
RLt(a, b)  ==
    /\ a # NaN /\ b # NaN
    /\ IF a[2] = 0 /\ b[2] = 0 THEN a[1] < b[1] ELSE a[1] * b[2] < b[1] * a[2]
RLe(a, b)  ==
    /\ a # NaN /\ b # NaN
    /\ IF a[2] = 0 /\ b[2] = 0 THEN a[1] <= b[1] ELSE a[1] * b[2] <= b[1] * a[2]
\* f64::max, f64::min, f64::clamp on finite values
RMax(a, b) == IF RLt(a, b) THEN b ELSE a
RMin(a, b) == IF RLt(b, a) THEN b ELSE a

\* geo::Coord { x, y }
Coord(x, y) == [x |-> x, y |-> y]
\* PartialEq on Coord<f64>: a NaN component equals nothing, itself included.
CoordEq(a, b) ==
    /\ a.x # NaN /\ a.y # NaN /\ b.x # NaN /\ b.y # NaN
    /\ a = b

---------------------------------------------------------------------------
(* geo::LineString and geo::Polygon, as far as the repository relies on    *)
(* them: a Polygon keeps every ring closed.                                *)

\* LineString::close: push the first coordinate unless first == last
\* (an empty ring counts as closed).
Close(ring) ==
    IF Len(ring) = 0 \/ CoordEq(ring[1], ring[Len(ring)])
    THEN ring
    ELSE Append(ring, ring[1])

\* Polygon::new(exterior, interiors): closes every ring.
PolygonNew(exterior, interiors) ==
    [exterior  |-> Close(exterior),
     interiors |-> [k \in DOMAIN interiors |-> Close(interiors[k])]]

\* Tile { vertices, polygons }
Tile(vertices, polygons) == [vertices |-> vertices, polygons |-> polygons]

---------------------------------------------------------------------------
(* generate_grid                                                           *)

\* Bounds of the step inputs tried: every step of MinStep..MaxStep, and
\* the three failing steps the specification names.
MinStep == 9
MaxStep == 185
ExampleSteps == {0, 7, 181}

\* A StepBy that runs over the inclusive range lo..=hi.
StepByInclusive(lo, hi, s) ==
    [k \in 1..((hi - lo + s) \div s) |-> lo + (k - 1) * s]

\* (lo..hi).step_by(s): lo, lo+s, ... below hi, in order.
StepBy(lo, hi, s) ==
    [k \in 1..((hi - lo + s - 1) \div s) |-> lo + (k - 1) * s]

\* A GridTile whose cell starts one step too far north.
GridTileShifted(i, j, s) ==
    LET bl == Coord(FromInt(i), FromInt(j + s))
        br == Coord(FromInt(i + s), FromInt(j + s))
        tl == Coord(FromInt(i), FromInt(j + s + s))
        tr == Coord(FromInt(i + s), FromInt(j + s + s))
    IN  Tile(PolygonNew(<<bl, br, tl, tr>>, <<>>), <<>>)

\* The four corners and the Tile of the cell whose bottom-left corner is
\* (i, j), exactly as the loop body builds it: vec![bl, br, tl, tr].
GridTile(i, j, s) ==
    LET bl == Coord(FromInt(i), FromInt(j))
        br == Coord(FromInt(i + s), FromInt(j))
        tl == Coord(FromInt(i), FromInt(j + s))
        tr == Coord(FromInt(i + s), FromInt(j + s))
    IN  Tile(PolygonNew(<<bl, br, tl, tr>>, <<>>), <<>>)

\* The loops of generate_grid: longitudes outside, latitudes inside.
GridLoop(s) ==
    LET lons == StepBy(-180, 180, s)
        lats == StepBy(-90, 90, s)
        nj   == Len(lats)
    IN  [n \in 1..(Len(lons) * nj) |->
            GridTile(lons[((n - 1) \div nj) + 1], lats[((n - 1) % nj) + 1], s)]

\* Parameter checks that forget the latitude divisibility test.
GridStepValidNo180(s) ==
    IF s = 0 THEN FALSE
    ELSE IF s > 180 THEN FALSE
    ELSE IF 360 % s # 0 THEN FALSE
    ELSE TRUE

\* The four parameter checks, in the order of the code.
GridStepValid(s) ==
    IF s = 0 THEN FALSE
    ELSE IF s > 180 THEN FALSE
    ELSE IF 360 % s # 0 THEN FALSE
    ELSE IF 180 % s # 0 THEN FALSE
    ELSE TRUE

\* generate_grid(step): Err(GridGenerationError) or Ok(grid).
generate_grid(s) ==
    IF ~GridStepValid(s)
    THEN [result |-> "GridGenerationError", grid |-> <<>>]
    ELSE [result |-> "Ok", grid |-> GridLoop(s)]

StepInputs == ExampleSteps \cup (MinStep..MaxStep)

---------------------------------------------------------------------------
(* densify_edges (geometry.rs)                                             *)

\* DEFAULT_MAX_DISTANCE_BETWEEN_POINTS = 0.5
DEFAULT_MAX_DISTANCE_BETWEEN_POINTS == <<1, 2>>

\* f64 values with their rounding.  Float(q, e) is the f64 value
\* q + e * 2^-53: q is the rational the computation gives without rounding,
\* e (a rational) is what the roundings so far have added.  A coordinate
\* <<n, d>> of a polygon handed to densify_edges is the f64 nearest to n/d.
\* Every operator gives the correctly rounded result (round to nearest, ties
\* to even) for |q| and its denominator below 2^14.
Float(q, e) == [q |-> q, e |-> e]

Sgn(i) == IF i > 0 THEN 1 ELSE IF i < 0 THEN -1 ELSE 0

\* 2^k as a rational, k any integer.
RPow2(k) == IF k >= 0 THEN <<2 ^ k, 1>> ELSE <<1, 2 ^ (-k)>>

\* a + b and a * b as RAdd and RMul give them, with the common factors
\* taken out before the multiplications: the terms of the f64 operators
\* have long denominators.
QAdd(a, b) ==
    LET g == GCD(a[2], b[2])
    IN  IF g = 0 THEN RAdd(a, b)
        ELSE Rat(a[1] * (b[2] \div g) + b[1] * (a[2] \div g), (a[2] \div g) * b[2])
QMul(a, b) ==
    LET g1 == GCD(Abs(a[1]), b[2])
        g2 == GCD(Abs(b[1]), a[2])
    IN  IF g1 = 0 \/ g2 = 0 THEN RMul(a, b)
        ELSE Rat((a[1] \div g1) * (b[1] \div g2), (a[2] \div g2) * (b[2] \div g1))

\* The binary exponent of the rational q > 0, searched from k: the k with
\* 2^k <= q < 2^(k+1), or with low the k with 2^k < q <= 2^(k+1), which is
\* the exponent of the values just below q.
RECURSIVE Binade(_, _, _)
Binade(q, k, low) ==
    IF RLt(q, RPow2(k)) \/ (low /\ ~RLt(RPow2(k), q)) THEN Binade(q, k - 1, low)
    ELSE IF RLt(RPow2(k + 1), q) \/ (~low /\ ~RLt(q, RPow2(k + 1)))
    THEN Binade(q, k + 1, low)
    ELSE k

\* 2^k mod m.
RECURSIVE PowMod(_, _)
PowMod(k, m) ==
    IF k = 0 THEN 1 % m
    ELSE IF k % 2 = 1 THEN (2 * PowMod(k - 1, m)) % m
    ELSE LET half == PowMod(k \div 2, m) IN (half * half) % m

\* floor(sqrt(n)) for n >= 0, searched in lo..hi.
RECURSIVE RootIn(_, _, _)
RootIn(n, lo, hi) ==
    IF lo >= hi THEN lo
    ELSE LET mid == (lo + hi + 1) \div 2
         IN  IF mid * mid <= n THEN RootIn(n, mid, hi) ELSE RootIn(n, lo, mid - 1)
IntSqrt(n) == RootIn(n, 0, IF n < 46340 THEN n ELSE 46340)

\* The f64 nearest to q + e1 * 2^-53 + (a term of sign s2 and of the order
\* of 2^-106).  With 2^-52 * 2^E the spacing of the f64 values at q, the
\* place of q between two of them, r/d of a spacing above the lower one, is
\* the remainder of q * 2^(52-E); the value then rounds to the nearest
\* whole number J of spacings, an exact tie going to the even one.
Round64(q, e1, s2) ==
    LET sg == IF q[1] < 0 THEN -1 ELSE 1
        d  == q[2]
        ea == <<sg * e1[1], e1[2]>>
        sa == sg * s2
        E  == Binade(<<sg * q[1], d>>, 0, ea[1] < 0 \/ (ea[1] = 0 /\ sa < 0))
        R  == (((sg * q[1]) % (2 * d)) * PowMod(52 - E, 2 * d)) % (2 * d)
        r  == Rat(R % d, d)
        Nearest(y, parity) ==
            LET fl == y[1] \div y[2]
                twice == 2 * (y[1] - fl * y[2])
            IN  IF twice < y[2] THEN fl
                ELSE IF twice > y[2] THEN fl + 1
                ELSE IF sa > 0 THEN fl + 1
                ELSE IF sa < 0 THEN fl
                ELSE IF (parity + fl) % 2 = 0 THEN fl ELSE fl + 1
    IN  IF q[2] = 0 \/ q[1] = 0 THEN Float(q, e1)
        ELSE Float(q, QMul(QAdd(FromInt(sg * Nearest(QAdd(r, QMul(ea, RPow2(-(E + 1)))),
                                                     R \div d)),
                                <<-sg * r[1], r[2]>>),
                           RPow2(E + 1)))

\* The f64 a coordinate or a literal holds: <<n, d>> is the f64 nearest to
\* n/d, <<n, d, e>> is the f64 n/d + e * 2^-53.
f64(q) ==
    IF Len(q) = 3 THEN Float(<<q[1], q[2]>>, q[3]) ELSE Round64(q, FromInt(0), 0)

\* The coordinate that holds the f64 a: <<n, d>> when a is the f64 nearest
\* to its q = n/d, else <<n, d, e>>.
Stored(a) ==
    IF a.e = Round64(a.q, FromInt(0), 0).e THEN a.q ELSE <<a.q[1], a.q[2], a.e>>

\* a - b, a + b, a * b
f64_sub(a, b) ==
    Round64(QAdd(a.q, <<-b.q[1], b.q[2]>>), QAdd(a.e, <<-b.e[1], b.e[2]>>), 0)
f64_add(a, b) == Round64(QAdd(a.q, b.q), QAdd(a.e, b.e), 0)
f64_mul(a, b) ==
    Round64(QMul(a.q, b.q), QAdd(QMul(a.q, b.e), QMul(b.q, a.e)),
            Sgn(a.e[1]) * Sgn(b.e[1]))

\* a.sqrt() for a >= 0.  The root of a rational that is no square is
\* irrational: no rounding brings it to a rational of small denominator, so
\* it is kept as [sq |-> a.q].
f64_sqrt(a) ==
    LET rn == IntSqrt(a.q[1])
        rd == IntSqrt(a.q[2])
    IN  IF a.q[1] = 0 THEN a
        ELSE IF rn * rn = a.q[1] /\ rd * rd = a.q[2]
        THEN Round64(<<rn, rd>>, QMul(a.e, <<rd, 2 * rn>>),
                     IF a.e[1] = 0 THEN 0 ELSE -1)
        ELSE [sq |-> a.q]

\* a / b for a >= 0 and b > 0
f64_div(a, b) ==
    IF "sq" \in DOMAIN a
    THEN [sq |-> QMul(a.sq, <<b.q[2] * b.q[2], b.q[1] * b.q[1]>>)]
    ELSE LET quotient == QMul(a.q, <<b.q[2], b.q[1]>>)
         IN  Round64(quotient,
                     QMul(QAdd(a.e, QMul(<<-quotient[1], quotient[2]>>, b.e)),
                          <<b.q[2], b.q[1]>>),
                     IF a.q[1] = 0 THEN 0
                     ELSE Sgn(b.e[1])
                            * Sgn(QAdd(QMul(b.e, a.q),
                                       QMul(<<-a.e[1], a.e[2]>>, b.q))[1]))

\* a > b for b > 0
f64_gt(a, b) ==
    IF "sq" \in DOMAIN a THEN RLt(QMul(b.q, b.q), a.sq)
    ELSE RLt(b.q, a.q) \/ (a.q = b.q /\ RLt(b.e, a.e))

\* a.ceil() as usize for a >= 0
f64_ceil(a) ==
    IF "sq" \in DOMAIN a
    THEN LET whole == -((-a.sq[1]) \div a.sq[2])
             root == IntSqrt(whole)
         IN  IF root * root = whole THEN root ELSE root + 1
    ELSE IF a.q[2] = 1 /\ a.e[1] > 0 THEN a.q[1] + 1
    ELSE -((-a.q[1]) \div a.q[2])

\* distance_between(c1, c2)
distance_between(c1, c2) ==
    LET dx == f64_sub(f64(c2.x), f64(c1.x))
        dy == f64_sub(f64(c2.y), f64(c1.y))
    IN  f64_sqrt(f64_add(f64_mul(dx, dx), f64_mul(dy, dy)))

\* distance > max_distance
distance_exceeds(distance, max_distance) == f64_gt(distance, max_distance)

\* (distance / max_distance).ceil() as usize
num_segments(distance, max_distance) == f64_ceil(f64_div(distance, max_distance))

\* interpolate_point(c1, c2, t): c1 + t * (c2 - c1) on each axis, every
\* operation rounded.
interpolate_point(c1, c2, t) ==
    Coord(Stored(f64_add(f64(c1.x), f64_mul(t, f64_sub(f64(c2.x), f64(c1.x))))),
          Stored(f64_add(f64(c1.y), f64_mul(t, f64_sub(f64(c2.y), f64(c1.y))))))

\* The intermediate points pushed for the edge c1 -> c2, whose computed
\* length is distance: for j in 1..num_segments, the point at
\* t = j as f64 / num_segments as f64.
EdgePoints(c1, c2, distance, max_distance) ==
    IF distance_exceeds(distance, max_distance)
    THEN [j \in 1..(num_segments(distance, max_distance) - 1) |->
             interpolate_point(c1, c2,
                 f64_div(f64(FromInt(j)),
                         f64(FromInt(num_segments(distance, max_distance)))))]
    ELSE <<>>

\* The loop over the edges i = 0 .. len-2 (here 1 .. len-1): the edge's
\* intermediate points, then its end point unless it is the last edge.
RECURSIVE DensifyLoop(_, _, _)
DensifyLoop(coords, max_distance, i) ==
    IF i > Len(coords) - 1 THEN <<>>
    ELSE EdgePoints(coords[i], coords[i + 1],
                    distance_between(coords[i], coords[i + 1]), f64(max_distance))
         \o (IF i < Len(coords) - 1 THEN <<coords[i + 1]>> ELSE <<>>)
         \o DensifyLoop(coords, max_distance, i + 1)

\* The closure handed to exterior_mut: the new coordinate vector.
DensifyRing(coords, max_distance) ==
    IF Len(coords) < 2 THEN coords
    ELSE LET last_coord == coords[Len(coords)]
         IN  <<coords[1]>>
             \o DensifyLoop(coords, max_distance, 1)
             \o (IF Len(coords) > 2 /\ ~CoordEq(last_coord, coords[1])
                 THEN <<last_coord>> ELSE <<>>)

\* densify_edges(polygon, max_distance): Polygon::exterior_mut runs the
\* closure and closes the ring again.
densify_edges(poly, max_distance) ==
    [poly EXCEPT !.exterior = Close(DensifyRing(poly.exterior, max_distance))]

---------------------------------------------------------------------------
(* BooleanOps::intersection of a tile's boundary polygon with an input     *)
(* polygon: the boolean-geometry primitive of the geo crate.  It is        *)
(* modelled for the inputs the model feeds it: a tile ring over the four   *)
(* corners of a rectangle (in perimeter order, or crossing itself as a     *)
(* bow-tie) and an axis-aligned rectangle as the polygon.  A ring that     *)
(* crosses itself is filled by the even-odd rule: the bow-tie is the two   *)
(* triangles between its parallel sides and the centre.  Results are       *)
(* counter-clockwise rings starting at their least (x, y) vertex.          *)

\* min/max of the coordinates of a non-empty ring, folded as in the loop
\* of clamp_polygon: <<min_x, max_x, min_y, max_y>>.
RECURSIVE RingBounds(_, _)
RingBounds(ring, i) ==
    IF i = Len(ring)
    THEN <<ring[i].x, ring[i].x, ring[i].y, ring[i].y>>
    ELSE LET b == RingBounds(ring, i + 1)
         IN  <<RMin(b[1], ring[i].x), RMax(b[2], ring[i].x),
               RMin(b[3], ring[i].y), RMax(b[4], ring[i].y)>>

AxisAligned(a, b) == a.x = b.x \/ a.y = b.y

\* A closed ring of five coordinates that walks the perimeter of an
\* axis-aligned rectangle of positive area.
IsAxisRect(ring) ==
    /\ Len(ring) = 5
    /\ \A k \in 1..5 : is_finite(ring[k].x) /\ is_finite(ring[k].y)
    /\ ring[1] = ring[5]
    /\ Cardinality({ring[k] : k \in 1..4}) = 4
    /\ LET b == RingBounds(ring, 1)
       IN  {ring[k] : k \in 1..4}
             = {Coord(b[1], b[3]), Coord(b[2], b[3]), Coord(b[1], b[4]), Coord(b[2], b[4])}
    /\ \A k \in 1..4 : AxisAligned(ring[k], ring[k + 1])

\* The convex regions a tile ring p1 p2 p3 p4 p1 encloses.
TileRegions(ring) ==
    LET b == RingBounds(ring, 1)
        two == FromInt(2)
        c == Coord(RDiv(RAdd(b[1], b[2]), two), RDiv(RAdd(b[3], b[4]), two))
    IN  IF \A k \in 1..4 : AxisAligned(ring[k], ring[k + 1])
        THEN << <<ring[1], ring[2], ring[3], ring[4]>> >>
        ELSE IF AxisAligned(ring[1], ring[2])
        THEN << <<ring[1], ring[2], c>>, <<ring[3], ring[4], c>> >>
        ELSE << <<ring[2], ring[3], c>>, <<ring[4], ring[1], c>> >>

\* Twice the signed area of a vertex list (positive: counter-clockwise).
RECURSIVE Area2From(_, _)
Area2From(poly, i) ==
    IF i > Len(poly) THEN FromInt(0)
    ELSE LET p == poly[i]
             q == poly[IF i = Len(poly) THEN 1 ELSE i + 1]
         IN  RAdd(RSub(RMul(p.x, q.y), RMul(q.x, p.y)), Area2From(poly, i + 1))
Area2(poly) == Area2From(poly, 1)

Reverse(sq) == [k \in 1..Len(sq) |-> sq[Len(sq) + 1 - k]]
CounterClockwise(poly) ==
    IF RLt(Area2(poly), FromInt(0)) THEN Reverse(poly) ELSE poly

\* Whether p lies on the inner side of side sd of the rectangle r
\* (1: x >= min_x, 2: x <= max_x, 3: y >= min_y, 4: y <= max_y).
InsideSide(p, sd, r) ==
    CASE sd = 1 -> RLe(r[1], p.x)
      [] sd = 2 -> RLe(p.x, r[2])
      [] sd = 3 -> RLe(r[3], p.y)
      [] sd = 4 -> RLe(p.y, r[4])

\* Where the segment p q crosses the line of side sd.
CrossSide(p, q, sd, r) ==
    IF sd \in {1, 2}
    THEN LET c == r[sd]
             t == RDiv(RSub(c, p.x), RSub(q.x, p.x))
         IN  Coord(c, RAdd(p.y, RMul(t, RSub(q.y, p.y))))
    ELSE LET c == r[sd]
             t == RDiv(RSub(c, p.y), RSub(q.y, p.y))
         IN  Coord(RAdd(p.x, RMul(t, RSub(q.x, p.x))), c)

\* The part of a convex vertex list on the inner side of side sd.
RECURSIVE ClipSideFrom(_, _, _, _)
ClipSideFrom(poly, sd, r, i) ==
    IF i > Len(poly) THEN <<>>
    ELSE LET cur  == poly[i]
             prev == poly[IF i = 1 THEN Len(poly) ELSE i - 1]
             here ==
                 IF InsideSide(cur, sd, r)
                 THEN (IF InsideSide(prev, sd, r) THEN <<>>
                       ELSE <<CrossSide(prev, cur, sd, r)>>) \o <<cur>>
                 ELSE IF InsideSide(prev, sd, r)
                      THEN <<CrossSide(prev, cur, sd, r)>>
                      ELSE <<>>
         IN  here \o ClipSideFrom(poly, sd, r, i + 1)

ClipToRect(poly, r) ==
    ClipSideFrom(ClipSideFrom(ClipSideFrom(ClipSideFrom(poly, 1, r, 1), 2, r, 1), 3, r, 1), 4, r, 1)

\* A vertex list without repeated neighbours (cyclically).
RECURSIVE DedupFrom(_, _)
DedupFrom(poly, i) ==
    IF i > Len(poly) THEN <<>>
    ELSE (IF poly[i] = poly[IF i = 1 THEN Len(poly) ELSE i - 1] /\ Len(poly) > 1
          THEN <<>> ELSE <<poly[i]>>)
         \o DedupFrom(poly, i + 1)

\* The vertex list turned to start at its least (x, then y) vertex.
StartAtLeast(poly) ==
    LET least == CHOOSE k \in 1..Len(poly) :
                     \A m \in 1..Len(poly) :
                         \/ RLt(poly[k].x, poly[m].x)
                         \/ (poly[k].x = poly[m].x /\ RLe(poly[k].y, poly[m].y))
    IN  [k \in 1..Len(poly) |-> poly[((least + k - 2) % Len(poly)) + 1]]

\* The polygons of region /\ rectangle: one polygon, or none when the
\* common part has no area.
RegionPiece(region, r) ==
    LET piece == DedupFrom(ClipToRect(CounterClockwise(region), r), 1)
    IN  IF Len(piece) >= 3 /\ RLt(FromInt(0), Area2(piece))
        THEN <<PolygonNew(StartAtLeast(piece), <<>>)>>
        ELSE <<>>

RECURSIVE PiecesFrom(_, _, _)
PiecesFrom(regions, r, i) ==
    IF i > Len(regions) THEN <<>>
    ELSE RegionPiece(regions[i], r) \o PiecesFrom(regions, r, i + 1)

\* tile.vertices.intersection(polygon): a MultiPolygon, as a sequence.  The
\* geo crate's operation is taken by its contract, the common region of the
\* two, for the polygons clipped here: axis-aligned rectangles, which are
\* their own bounding rectangles.
intersection(vertices, poly) ==
    PiecesFrom(TileRegions(vertices.exterior), RingBounds(poly.exterior, 1), 1)

---------------------------------------------------------------------------
(* clip_polygon_to_tiles, clamp_polygons (tile.rs)                         *)

\* The fragments pushed to one tile: each resulting polygon, densified.
TileFragments(tile, poly) ==
    LET resulting_polygons == intersection(tile.vertices, poly)
    IN  [k \in DOMAIN resulting_polygons |->
            densify_edges(resulting_polygons[k], DEFAULT_MAX_DISTANCE_BETWEEN_POINTS)]

\* A loop that overwrites a tile's fragments instead of appending to them.
ClipLoopReplace(g, poly) ==
    [n \in DOMAIN g |->
        [g[n] EXCEPT !.polygons = TileFragments(g[n], poly)]]

\* The loop over the tiles.
ClipLoop(g, poly) ==
    [n \in DOMAIN g |->
        [g[n] EXCEPT !.polygons = @ \o TileFragments(g[n], poly)]]

\* The validation of the boundary ring.  The error message is formatted
\* with vertex_count - 1 on a usize: for an empty ring the subtraction
\* underflows, which panics in a build with overflow checks (the debug
\* profile) and wraps in one without (the release profile).
ClipValidate(poly, overflow_checks) ==
    LET vertex_count == Len(poly.exterior)
    IN  IF vertex_count < 4
        THEN IF vertex_count = 0 /\ overflow_checks
             THEN "panic"
             ELSE "InvalidPolygonError"
        ELSE IF \E k \in DOMAIN poly.exterior :
                    ~is_finite(poly.exterior[k].x) \/ ~is_finite(poly.exterior[k].y)
             THEN "InvalidPolygonError"
             ELSE "Ok"

\* A clip that empties every fragment list before it validates the ring.
clip_polygon_to_tiles_clearing(g, poly, overflow_checks) ==
    LET v == ClipValidate(poly, overflow_checks)
        cleared == [n \in DOMAIN g |-> [g[n] EXCEPT !.polygons = <<>>]]
    IN  IF v # "Ok"
        THEN [result |-> v, grid |-> cleared]
        ELSE [result |-> "Ok", grid |-> ClipLoop(cleared, poly)]

\* clip_polygon_to_tiles(grid, polygon)
clip_polygon_to_tiles(g, poly, overflow_checks) ==
    LET v == ClipValidate(poly, overflow_checks)
    IN  IF v # "Ok"
        THEN [result |-> v, grid |-> g]
        ELSE [result |-> "Ok", grid |-> ClipLoop(g, poly)]

\* A clamp that moves an outside coordinate only half of the way to the
\* bound.
clamp_polygon_halfway(poly, tile_exterior) ==
    LET b == RingBounds(tile_exterior, 1)
        Half(v, lo, hi) == IF RLt(v, lo) THEN RDiv(RAdd(v, lo), FromInt(2))
                           ELSE IF RLt(hi, v) THEN RDiv(RAdd(v, hi), FromInt(2))
                           ELSE v
    IN  [poly EXCEPT !.exterior =
            Close([k \in DOMAIN @ |->
                Coord(Half(@[k].x, b[1], b[2]), Half(@[k].y, b[3], b[4]))])]

\* v.clamp(lo, hi): the comparisons are those of the f64 values held.
RClamp(v, lo, hi) ==
    IF f64_gt(f64(lo), f64(v)) THEN lo
    ELSE IF f64_gt(f64(v), f64(hi)) THEN hi
    ELSE v

\* clamp_polygon(polygon, tile_exterior): every coordinate of the exterior
\* ring clamped into the bounds of the tile ring; exterior_mut closes the
\* ring again.  The interior rings are not visited.
clamp_polygon(poly, tile_exterior) ==
    LET b == RingBounds(tile_exterior, 1)
    IN  [poly EXCEPT !.exterior =
            Close([k \in DOMAIN @ |->
                Coord(RClamp(@[k].x, b[1], b[2]), RClamp(@[k].y, b[3], b[4]))])]

\* clamp_polygons(tiles)
clamp_polygons(g) ==
    [n \in DOMAIN g |->
        [g[n] EXCEPT !.polygons =
            [k \in DOMAIN @ |-> clamp_polygon(@[k], g[n].vertices.exterior)]]]

---------------------------------------------------------------------------
(* The grids and polygons of the callers: the test helpers and main.       *)

\* create_square_tile(x, y, size) of the clip tests.
create_square_tile(x, y, size) ==
    Tile(PolygonNew(<<Coord(FromInt(x), FromInt(y)),
                      Coord(FromInt(x + size), FromInt(y)),
                      Coord(FromInt(x + size), FromInt(y + size)),
                      Coord(FromInt(x), FromInt(y + size)),
                      Coord(FromInt(x), FromInt(y))>>, <<>>),
         <<>>)

\* create_2x2_grid(tile_size) of the clip tests.
create_2x2_grid(tile_size) ==
    <<create_square_tile(0, 0, tile_size),
      create_square_tile(tile_size, 0, tile_size),
      create_square_tile(0, tile_size, tile_size),
      create_square_tile(tile_size, tile_size, tile_size)>>

\* polygon![(x0,y0), (x1,y0), (x1,y1), (x0,y1), (x0,y0)], the corners given
\* in tenths of a degree.
RectPolygon(t) ==
    LET x0 == Rat(t[1], 10)
        y0 == Rat(t[2], 10)
        x1 == Rat(t[3], 10)
        y1 == Rat(t[4], 10)
    IN  PolygonNew(<<Coord(x0, y0), Coord(x1, y0), Coord(x1, y1),
                     Coord(x0, y1), Coord(x0, y0)>>, <<>>)

\* The rectangles of the clip tests, and rectangles placed against the
\* tiles generate_grid builds (in tenths of a degree).
ClipRects ==
    { <<20, 20, 40, 40>>,      \* test_polygon_fully_within_single_tile
      <<50, 50, 150, 150>>,    \* test_polygon_spanning_multiple_tiles
      <<250, 250, 300, 300>>,  \* test_polygon_no_intersection
      <<80, 0, 120, 100>>,     \* test_polygon_edge_intersection
      <<90, 90, 110, 110>>,    \* test_polygon_touching_tile_corner
      <<50, 50, 51, 51>>,      \* test_very_small_polygon
      <<-10, -10, 10, 10>>,    \* around the corner shared by four tiles
      <<10, 50, 37, 70>>,      \* left of the centre of the tile at the origin
      <<490, 490, 510, 510>>,  \* around the centre of the tile [40,60] x [40,60]
      <<6, 0, 11, 3>>,         \* 1.1 - 0.6 computes as 0.5000000000000001
      <<3, 0, 8, 3>>,          \* 0.8 - 0.3 computes as 0.5
      <<1, 0, 16, 3>> }        \* 1.5 long, cut in three

\* Polygons clip must reject: rings of 0, 1, 2 and 3 coordinates, and rings
\* holding NaN, +inf and -inf.
InvalidPolygons ==
    LET a == Coord(FromInt(1), FromInt(1))
        b == Coord(FromInt(3), FromInt(1))
        c == Coord(FromInt(3), FromInt(3))
    IN  { PolygonNew(<<>>, <<>>),
          PolygonNew(<<a>>, <<>>),
          PolygonNew(<<a, a>>, <<>>),
          PolygonNew(<<a, b>>, <<>>),
          PolygonNew(<<a, b, Coord(NaN, FromInt(3))>>, <<>>),
          PolygonNew(<<a, b, c, Coord(FromInt(1), PosInf)>>, <<>>),
          PolygonNew(<<Coord(NegInf, FromInt(1)), b, c>>, <<>>) }

ClipInputs == {RectPolygon(t) : t \in ClipRects} \cup InvalidPolygons

\* The step main generates its grid with, and the test grid's tile size.
PipelineSteps == {20}
TestTileSizes == {10}

\* How many clip calls a run makes at most.
MaxClips == 2

\* Grids a caller of the library builds itself (Tile's fields are public):
\* one tile over [0,10] x [0,10], with its ring in perimeter order or in the
\* corner order of generate_grid, already holding up to MaxFragments
\* fragments, some reaching outside the tile, one with a hole.
MaxFragments == 2

CallerFragments ==
    LET P(x, y) == Coord(Rat(x, 10), Rat(y, 10))   \* tenths of a degree
    IN  { PolygonNew(<<P(10, 10), P(90, 10), P(50, 90)>>, <<>>),
          PolygonNew(<<P(-1, 20), P(101, 50), P(50, 101)>>, <<>>),
          PolygonNew(<<P(-10, -10), P(120, -10), P(120, 120), P(-10, 120)>>,
                     << <<P(20, 20), P(110, 50), P(50, 80)>> >>) }

RECURSIVE SeqsUpTo(_, _)
SeqsUpTo(S, n) ==
    IF n = 0 THEN {<<>>}
    ELSE LET shorter == SeqsUpTo(S, n - 1)
         IN  shorter \cup {Append(q, e) : q \in shorter, e \in S}

CallerGrids ==
    {create_2x2_grid(10)}
    \cup {<<[t EXCEPT !.polygons = f]>> :
             t \in {create_square_tile(0, 0, 10), GridTile(0, 0, 10)},
             f \in SeqsUpTo(CallerFragments, MaxFragments)}

\* The clip inputs tried on the callers' grids.
CallerClipInputs ==
    {RectPolygon(t) : t \in {<<20, 20, 40, 40>>, <<50, 50, 51, 51>>, <<10, 50, 37, 70>>}}
    \cup {PolygonNew(<<>>, <<>>)}

---------------------------------------------------------------------------
(* ll_to_cartesian, sanitize_coordinates (geometry.rs)                     *)
(*                                                                         *)
(* The angles handed to ll_to_cartesian are decided at two scales: the     *)
(* 0.1 degree tolerance and the 1e-10 degree epsilon.  An angle is         *)
(* [q, e]: the rational q degrees plus e units of 1e-11 degree, with e so  *)
(* small that it only orders angles of equal q.  A non-finite angle has a  *)
(* non-finite q and e = 0.                                                 *)

Deg(q, e) == [q |-> q, e |-> e]

\* a > b and a <= b on f64: false whenever an operand is NaN.
FGt(a, b) == RLt(b.q, a.q) \/ (a.q = b.q /\ a.q # NaN /\ a.e > b.e)
FLe(a, b) == RLt(a.q, b.q) \/ (a.q = b.q /\ a.q # NaN /\ a.e <= b.e)
FLt(a, b) == FGt(b, a)
FGe(a, b) == FLe(b, a)

\* f64::abs
FAbs(a) ==
    IF a.q[1] < 0 \/ (a.q[1] = 0 /\ a.e < 0)
    THEN Deg(<<-a.q[1], a.q[2]>>, -a.e)
    ELSE a

\* a + b, a - b on finite angles
FAdd(a, b) == Deg(RAdd(a.q, b.q), a.e + b.e)
FSub(a, b) == Deg(RSub(a.q, b.q), a.e - b.e)

\* The literals of ll_to_cartesian.
Deg180   == Deg(FromInt(180), 0)
Deg90    == Deg(FromInt(90), 0)
DegTenth == Deg(Rat(1, 10), 0)
\* let epsilon: f64 = 1e-10, in units of 1e-11 degree
EpsilonUnits == 10
FNeg(a) == Deg(<<-a.q[1], a.q[2]>>, -a.e)

\* sanitize_coordinates(longitude, latitude, epsilon)
sanitize_coordinates(longitude, latitude, epsilon) ==
    LET sanitized_longitude ==
            IF FGt(longitude, Deg180) /\ FLe(longitude, FAdd(Deg180, epsilon))
            THEN Deg180
            ELSE IF FLt(longitude, FNeg(Deg180))
                    /\ FGe(longitude, FSub(FNeg(Deg180), epsilon))
            THEN FNeg(Deg180)
            ELSE longitude
        sanitized_latitude ==
            IF FGt(latitude, Deg90) /\ FLe(latitude, FAdd(Deg90, epsilon))
            THEN Deg90
            ELSE IF FLt(latitude, FNeg(Deg90))
                    /\ FGe(latitude, FSub(FNeg(Deg90), epsilon))
            THEN FNeg(Deg90)
            ELSE latitude
    IN  <<sanitized_longitude, sanitized_latitude>>

\* A range check that also rejects the limits 180.1 and 90.1 themselves.
OutOfRangeInclusive(longitude, latitude) ==
    \/ FGe(FAbs(longitude), FAdd(Deg180, DegTenth))
    \/ FGe(FAbs(latitude), FAdd(Deg90, DegTenth))

\* The range check of ll_to_cartesian.
OutOfRange(longitude, latitude) ==
    \/ FGt(FAbs(longitude), FAdd(Deg180, DegTenth))
    \/ FGt(FAbs(latitude), FAdd(Deg90, DegTenth))

\* ll_to_cartesian(longitude, latitude): Err(CoordinateRangeError
\* { longitude, latitude }) or Ok((x, y, z)).  The point returned is
\* (cos(lat) cos(lon), cos(lat) sin(lon), sin(lat)) of the sanitized angles;
\* it is recorded as those two angles.
ll_to_cartesian(longitude, latitude) ==
    IF OutOfRange(longitude, latitude)
    THEN [result |-> "CoordinateRangeError",
          value  |-> [longitude |-> longitude, latitude |-> latitude]]
    ELSE LET sc == sanitize_coordinates(longitude, latitude, Deg(FromInt(0), EpsilonUnits))
         IN  [result |-> "Ok",
              value  |-> [longitude_deg |-> sc[1], latitude_deg |-> sc[2]]]

\* The angles ll_to_cartesian is tried on: around 0, the range limits, inside
\* the tolerance, the tolerance limits and beyond, each moved by the offsets (units of 1e-11
\* degree), and the non-finite values.
TinyOffsets == {-11, -10, -1, 0, 1, 10, 11}
NonFiniteAngles == {Deg(NaN, 0), Deg(PosInf, 0), Deg(NegInf, 0)}
LongitudeInputs ==
    {Deg(Rat(t, 100), e) : t \in {0, 18000, -18000, 18005, 18010, -18010,
                                  20000, -20000},
                           e \in TinyOffsets}
    \cup NonFiniteAngles
LatitudeInputs ==
    {Deg(Rat(t, 100), e) : t \in {0, 9000, -9000, 9005, 9010, -9010,
                                  9500, -9500},
                           e \in TinyOffsets}
    \cup NonFiniteAngles

---------------------------------------------------------------------------
(* State machine                                                           *)

Init ==
    /\ grid = <<>>
    /\ op = "none"
    /\ step = 0
    /\ polygon = PolygonNew(<<>>, <<>>)
    /\ lonlat = <<Deg(FromInt(0), 0), Deg(FromInt(0), 0)>>
    /\ result = "none"
    /\ value = <<>>
    /\ clips = 0
    /\ input = <<>>

\* let grid = generate_grid(s): the caller's first call.
GenerateGrid(s) ==
    /\ op = "none"
    /\ LET r == generate_grid(s)
       IN  /\ grid' = r.grid
           /\ result' = r.result
    /\ op' = "generate_grid"
    /\ step' = s
    /\ UNCHANGED <<polygon, lonlat, value, clips, input>>

\* let grid = create_2x2_grid(size): the first call of a clip test.
Create2x2Grid(size) ==
    /\ op = "none"
    /\ grid' = create_2x2_grid(size)
    /\ result' = "Ok"
    /\ op' = "create_2x2_grid"
    /\ UNCHANGED <<step, polygon, lonlat, value, clips, input>>

\* The caller holds a grid: one was built, and nothing has panicked.
HasGrid ==
    /\ op \in {"generate_grid", "create_2x2_grid", "caller_grid",
               "clip_polygon_to_tiles", "clamp_polygons"}
    /\ ~(op = "generate_grid" /\ result # "Ok")
    /\ result # "panic"

\* clip_polygon_to_tiles(&mut grid, &poly)
Clip(poly, overflow_checks) ==
    /\ HasGrid
    /\ clips < MaxClips
    /\ \E r \in {clip_polygon_to_tiles(grid, poly, overflow_checks)} :
           /\ grid' = r.grid
           /\ result' = r.result
    /\ op' = "clip_polygon_to_tiles"
    /\ polygon' = poly
    /\ clips' = clips + 1
    /\ UNCHANGED <<step, lonlat, value, input>>

\* clamp_polygons(&mut grid)
Clamp ==
    /\ HasGrid
    /\ grid' = clamp_polygons(grid)
    /\ result' = "Ok"
    /\ op' = "clamp_polygons"
    /\ UNCHANGED <<step, polygon, lonlat, value, clips, input>>

\* ll_to_cartesian(longitude, latitude): a pure function, callable at any time.
LlToCartesian(longitude, latitude) ==
    /\ op = "none"
    /\ LET r == ll_to_cartesian(longitude, latitude)
       IN  /\ result' = r.result
           /\ value' = r.value
    /\ op' = "ll_to_cartesian"
    /\ lonlat' = <<longitude, latitude>>
    /\ UNCHANGED <<grid, step, polygon, clips, input>>

\* Grid generation alone, over every step input.
NextGrid == \E s \in StepInputs : GenerateGrid(s)
SpecGrid == Init /\ [][NextGrid]_vars

\* The pipeline of main and of the clip tests: a grid, then clips and clamps.
Next ==
    \/ \E s \in PipelineSteps : GenerateGrid(s)
    \/ \E size \in TestTileSizes : Create2x2Grid(size)
    \/ \E poly \in ClipInputs, overflow_checks \in BOOLEAN : Clip(poly, overflow_checks)
    \/ Clamp
Spec == Init /\ [][Next]_vars

\* The coordinate transform alone, over the angle inputs.
NextCart ==
    \E longitude \in LongitudeInputs, latitude \in LatitudeInputs :
        LlToCartesian(longitude, latitude)
SpecCart == Init /\ [][NextCart]_vars

\* The library called on a grid its caller built.
InitTiles ==
    /\ grid \in CallerGrids
    /\ op = "caller_grid"
    /\ step = 0
    /\ polygon = PolygonNew(<<>>, <<>>)
    /\ lonlat = <<Deg(FromInt(0), 0), Deg(FromInt(0), 0)>>
    /\ result = "Ok"
    /\ value = <<>>
    /\ clips = 0
    /\ input = <<>>

NextTiles ==
    \/ \E poly \in CallerClipInputs, overflow_checks \in BOOLEAN : Clip(poly, overflow_checks)
    \/ Clamp
SpecTiles == InitTiles /\ [][NextTiles]_vars

---------------------------------------------------------------------------
(* stereographic_projection (geometry.rs)                                  *)
(*                                                                         *)
(* A component of a 3D point is [q, e]: the rational q plus e units of     *)
(* 2^-53, the spacing of the f64 values just below 1.0 (just above 1.0     *)
(* the spacing is two units).  The points tried have e # 0 only at q = 1.  *)

Ulp(q, e) == [q |-> q, e |-> e]

\* f64::EPSILON = 2^-52: two units of 2^-53.
EPSILON == Ulp(FromInt(0), 2)

\* The value m * 2^exp2: what a division by a few units of 2^-53 yields.
Scaled(m, exp2) == [m |-> m, exp2 |-> IF m = FromInt(0) THEN 0 ELSE exp2]

\* a / b for a = [q, 0] and b # 0: b is an ordinary rational, or a whole
\* number of units of 2^-53.
FDiv(a, b) ==
    IF b.q # FromInt(0)
    THEN Scaled(RDiv(a.q, b.q), 0)
    ELSE Scaled(RDiv(a.q, FromInt(b.e)), 53)

\* A singularity test that also rejects z at exactly EPSILON from 1.0.
NearNorthPoleInclusive(z) == FLe(FAbs(FSub(z, Ulp(FromInt(1), 0))), EPSILON)

\* (z - 1.0).abs() < f64::EPSILON
NearNorthPole(z) == FLt(FAbs(FSub(z, Ulp(FromInt(1), 0))), EPSILON)

\* stereographic_projection(point): Err(ProjectionError) or Ok(Coord).
stereographic_projection(p) ==
    LET x == p[1]
        y == p[2]
        z == p[3]
    IN  IF NearNorthPole(z)
        THEN [result |-> "ProjectionError", value |-> <<>>]
        ELSE LET x_2d == FDiv(x, FSub(Ulp(FromInt(1), 0), z))
                 y_2d == FDiv(y, FSub(Ulp(FromInt(1), 0), z))
             IN  [result |-> "Ok", value |-> Coord(x_2d, y_2d)]

\* The points projected: x and y ordinary values, z ordinary or one of the
\* f64 values next to 1.0.
PlaneInputs == {Ulp(q, 0) : q \in {FromInt(0), FromInt(1), FromInt(-1),
                                   Rat(4, 5), Rat(-1, 2)}}
HeightInputs ==
    {Ulp(q, 0) : q \in {FromInt(-1), FromInt(0), Rat(1, 2), Rat(-3, 5),
                        FromInt(1), FromInt(2)}}
    \cup {Ulp(FromInt(1), e) : e \in {-4, -3, -2, -1, 2, 4}}
PointInputs == {<<x, y, z>> : x \in PlaneInputs, y \in PlaneInputs, z \in HeightInputs}

\* stereographic_projection(p): a pure function, callable at any time.
StereographicProjection(p) ==
    /\ op = "none"
    /\ LET r == stereographic_projection(p)
       IN  /\ result' = r.result
           /\ value' = r.value
    /\ op' = "stereographic_projection"
    /\ input' = p
    /\ UNCHANGED <<grid, step, polygon, lonlat, clips>>

\* The projection alone, over the point inputs.
NextProj == \E p \in PointInputs : StereographicProjection(p)
SpecProj == Init /\ [][NextProj]_vars

---------------------------------------------------------------------------

(* rotate_points_to_south_pole (geometry.rs)                               *)
(*                                                                         *)
(* A point is <<x, y, z>> with rational components.  A point set comes     *)
(* with two powers of two.  exp2 multiplies every coordinate: 0 for        *)
(* ordinary points, -53 for points a few units of 2^-53 from the origin.   *)
(* plane multiplies x and y once more: 0, or -53 or -30 for points a few   *)
(* units of 2^-53 or of 2^-30 from the z axis, whose centroid is off the   *)
(* plane z = 0.  Where plane = 0 the arithmetic is exact, and square roots *)
(* too: the point sets tried have a centroid of rational length.  Where    *)
(* plane # 0 every coordinate is kept to its leading term in 2^plane,      *)
(* which is what the f64 operations keep of it.                            *)

Vector3(x, y, z) == <<x, y, z>>
VAdd(a, b) == <<RAdd(a[1], b[1]), RAdd(a[2], b[2]), RAdd(a[3], b[3])>>
VScale(a, k) == <<RMul(a[1], k), RMul(a[2], k), RMul(a[3], k)>>
Dot(a, b) == RAdd(RAdd(RMul(a[1], b[1]), RMul(a[2], b[2])), RMul(a[3], b[3]))
Cross(a, b) ==
    <<RSub(RMul(a[2], b[3]), RMul(a[3], b[2])),
      RSub(RMul(a[3], b[1]), RMul(a[1], b[3])),
      RSub(RMul(a[1], b[2]), RMul(a[2], b[1]))>>

\* The largest square root looked for.
MaxRoot == 64
IsSquare(i) == \E r \in 0..MaxRoot : r * r = i
ISqrt(i) == CHOOSE r \in 0..MaxRoot : r * r = i
\* a is the square of a rational; its square root.
HasRoot(a) == a[1] >= 0 /\ IsSquare(a[1]) /\ IsSquare(a[2])
RSqrt(a) == <<ISqrt(a[1]), ISqrt(a[2])>>

\* for (x, y, z) in points.iter() { center += ... }
RECURSIVE SumFrom(_, _)
SumFrom(pts, i) ==
    IF i > Len(pts) THEN Vector3(FromInt(0), FromInt(0), FromInt(0))
    ELSE VAdd(pts[i], SumFrom(pts, i + 1))

\* center /= points.len() as f64
Centroid(pts) == VScale(SumFrom(pts, 1), Rat(1, Len(pts)))

\* The part of the vector a that gives its length: all of it, or its z
\* alone when x and y carry the factor 2^plane and z # 0.
Leading(a, plane) ==
    IF plane = 0 \/ a[3] = FromInt(0) THEN a
    ELSE Vector3(FromInt(0), FromInt(0), a[3])

\* m2 * 2^(2 exp2) < EPSILON^2 = 2^-104, for m2 >= 0 the square of a length
\* whose coordinates carry the factor 2^exp2.  A positive rational with
\* numerator and denominator below 2^31 is above 2^-104.
SquareBelowEpsilon(m2, exp2) ==
    LET k == -104 - 2 * exp2
    IN  IF k >= 0 THEN RLt(m2, FromInt(2 ^ k)) ELSE m2[1] <= 0

\* m2 * 2^(2 exp2) > 2^bound, for a rational m2 >= 0 with numerator and
\* denominator below 2^31.
SquareAbove(m2, exp2, bound) ==
    LET k == bound - 2 * exp2
    IN  IF k >= 0
        THEN /\ k <= 30
             /\ \/ m2[1] \div m2[2] > 2 ^ k
                \/ (m2[1] \div m2[2] = 2 ^ k /\ m2[1] % m2[2] # 0)
        ELSE /\ m2[1] > 0
             /\ (k < -30 \/ m2[2] \div m2[1] < 2 ^ (-k))

\* A magnitude check that also rejects a centroid of length EPSILON.
CenterTooSmallInclusive(center, exp2) ==
    \/ SquareBelowEpsilon(Dot(center, center), exp2)
    \/ /\ -104 - 2 * exp2 >= 0
       /\ Dot(center, center) = FromInt(2 ^ (-104 - 2 * exp2))

\* center.magnitude() < EPSILON
CenterTooSmall(center, exp2) == SquareBelowEpsilon(Dot(center, center), exp2)

\* Rotation3::rotation_between that answers the identity for opposite
\* vectors too.
rotation_between_total(a, b, plane) ==
    LET c == Cross(a, b)
    IN  IF SquareAbove(Dot(c, c), plane, -104)
        THEN [some |-> TRUE, axis_sin |-> c, cos |-> Dot(a, b)]
        ELSE [some |-> TRUE,
              axis_sin |-> Vector3(FromInt(0), FromInt(0), FromInt(0)),
              cos |-> FromInt(1)]

\* Rotation3::rotation_between(a, b) for unit vectors a, b (nalgebra), b on
\* the z axis and x and y of a carrying the factor 2^plane.  With c = a x b,
\* Unit::try_new(c, EPSILON) gives the axis when |c|^2 > EPSILON^2 = 2^-104,
\* and the rotation is the one about it by the angle acos(a . b); without
\* an axis the answer is None when a . b < 0 and the identity otherwise.
\* The rotation is recorded by cos = a . b and by axis_sin: for plane = 0
\* c itself, the axis times the sine of the angle; for plane # 0, where
\* a . b is 1 or -1 in f64 and the angle 0 or PI, c as the direction of the
\* axis.
rotation_between(a, b, plane) ==
    LET c == Cross(a, b)
    IN  IF SquareAbove(Dot(c, c), plane, -104)
        THEN [some |-> TRUE, axis_sin |-> c, cos |-> Dot(a, b)]
        ELSE IF RLt(Dot(a, b), FromInt(0))
        THEN [some |-> FALSE]
        ELSE [some |-> TRUE,
              axis_sin |-> Vector3(FromInt(0), FromInt(0), FromInt(0)),
              cos |-> FromInt(1)]

\* rotation * p (Rodrigues): p cos + (k x p) sin + k (k . p)(1 - cos).
\* For plane = 0, k sin = axis_sin and sin^2 = (1 - cos)(1 + cos).  For
\* plane # 0 the angle is 0 or PI: sin = 0, k = axis_sin / |axis_sin| lies
\* in the plane z = 0 and p is kept (cos = 1) or turned by a half turn
\* about k (cos = -1), x and y of p carrying the factor 2^plane.
Rotate(rotation, p, plane) ==
    IF rotation.axis_sin = Vector3(FromInt(0), FromInt(0), FromInt(0))
    THEN p
    ELSE IF plane = 0
    THEN VAdd(VAdd(VScale(p, rotation.cos), Cross(rotation.axis_sin, p)),
              VScale(rotation.axis_sin,
                     RDiv(Dot(rotation.axis_sin, p), RAdd(FromInt(1), rotation.cos))))
    ELSE VAdd(VScale(p, rotation.cos),
              VScale(rotation.axis_sin,
                     RDiv(RMul(RSub(FromInt(1), rotation.cos),
                               Dot(rotation.axis_sin, Vector3(p[1], p[2], FromInt(0)))),
                          Dot(rotation.axis_sin, rotation.axis_sin))))

\* rotate_points_to_south_pole(points), every coordinate of points carrying
\* the factor 2^exp2, x and y the factor 2^plane too:
\* Err(EmptyPointSetError), Err(RotationError) or Ok(rotated_points), which
\* carry the same factors.
rotate_points_to_south_pole(pts, exp2, plane) ==
    IF pts = <<>>
    THEN [result |-> "EmptyPointSetError", value |-> <<>>]
    ELSE IF CenterTooSmall(Leading(Centroid(pts), plane), exp2)
    THEN [result |-> "RotationError", value |-> <<>>]
    ELSE \* Unit::new_normalize(center), then the rotation to the south pole
         LET rotation ==
                 rotation_between(
                     VScale(Centroid(pts),
                            RDiv(FromInt(1),
                                 RSqrt(Dot(Leading(Centroid(pts), plane),
                                           Leading(Centroid(pts), plane))))),
                     Vector3(FromInt(0), FromInt(0), FromInt(-1)),
                     plane)
         IN  IF ~rotation.some
             THEN [result |-> "RotationError", value |-> <<>>]
             ELSE [result |-> "Ok",
                   value |-> [k \in DOMAIN pts |-> Rotate(rotation, pts[k], plane)]]

\* The points rotated: on the unit sphere and off it.
BasePoints ==
    {Vector3(FromInt(x), FromInt(y), FromInt(z)) :
        <<x, y, z>> \in {<<1, 0, 0>>, <<-1, 0, 0>>, <<0, 0, 1>>, <<0, 0, -1>>,
                         <<2, 0, 0>>, <<3, 0, 0>>, <<0, 4, 0>>, <<1, 2, 2>>,
                         <<2, 3, 6>>, <<0, 0, 3>>}}
    \cup {Vector3(Rat(x, 5), Rat(y, 5), Rat(z, 5)) :
        <<x, y, z>> \in {<<3, 4, 0>>, <<3, -4, 0>>, <<0, 3, 4>>, <<0, -3, 4>>}}

\* The points rotated that lie next to the z axis: x and y in units of
\* 2^plane, z as it is.
AxisPoints ==
    {Vector3(FromInt(x), FromInt(y), FromInt(z)) :
        <<x, y, z>> \in {<<0, 0, 1>>, <<1, 0, 1>>, <<2, 0, 1>>, <<0, -2, 1>>,
                         <<3, 0, 1>>, <<3, 4, 1>>, <<1, 1, 2>>,
                         <<1, 0, -1>>, <<0, 2, -1>>, <<3, 0, -1>>, <<-4, 3, -1>>}}

\* The longest point set tried.
MaxPoints == 2

\* The point sets of at most MaxPoints points.  With plane = 0: those whose
\* centroid has a rational length, at both scales.  Next to the z axis:
\* those whose centroid is off the plane z = 0, less the sets a few units
\* of 2^-53 from the axis that get an axis on the north side: there
\* sin(PI) = 1.2e-16, which the half turn leaves out, is of the size of x
\* and y.
PointSetInputs ==
    {[points |-> pts, exp2 |-> e, plane |-> 0] :
        pts \in {s \in SeqsUpTo(BasePoints, MaxPoints) :
                    s = <<>> \/ HasRoot(Dot(Centroid(s), Centroid(s)))},
        e \in {0, -53}}
    \cup
    {i \in {[points |-> pts, exp2 |-> 0, plane |-> pl] :
               pts \in {s \in SeqsUpTo(AxisPoints, MaxPoints) :
                           s # <<>> /\ Centroid(s)[3] # FromInt(0)},
               pl \in {-53, -30}} :
        ~(/\ i.plane = -53
          /\ RLt(FromInt(0), Centroid(i.points)[3])
          /\ SquareAbove(RDiv(RAdd(RMul(Centroid(i.points)[1], Centroid(i.points)[1]),
                                   RMul(Centroid(i.points)[2], Centroid(i.points)[2])),
                              RMul(Centroid(i.points)[3], Centroid(i.points)[3])),
                         -53, -104))}

\* rotate_points_to_south_pole(&points): a pure function, callable at any time.
RotatePointsToSouthPole(pts, exp2, plane) ==
    /\ op = "none"
    /\ LET r == rotate_points_to_south_pole(pts, exp2, plane)
       IN  /\ result' = r.result
           /\ value' = r.value
    /\ op' = "rotate_points_to_south_pole"
    /\ input' = [points |-> pts, exp2 |-> exp2, plane |-> plane]
    /\ UNCHANGED <<grid, step, polygon, lonlat, clips>>

\* The rotation alone, over the point sets.
NextRot ==
    \E i \in PointSetInputs : RotatePointsToSouthPole(i.points, i.exp2, i.plane)
SpecRot == Init /\ [][NextRot]_vars

---------------------------------------------------------------------------

(* fibonacci_sphere (fibonacci.rs)                                         *)
(*                                                                         *)
(* An angle of the spiral is [a, b]: (a + b sqrt(5)) * PI radians, with a  *)
(* and b rational; comparisons are exact.  A latitude is [asin |-> y], the *)
(* arc sine of the rational y, which lies in [-PI/2, PI/2] when            *)
(* -1 <= y <= 1 and is NaN otherwise.                                      *)

PiTimes(a, b) == [a |-> a, b |-> b]

\* a + b sqrt(5) > 0
PiPositive(v) ==
    LET a2 == RMul(v.a, v.a)
        b2 == RMul(FromInt(5), RMul(v.b, v.b))
    IN  IF v.a[1] >= 0 /\ v.b[1] >= 0 THEN v.a[1] > 0 \/ v.b[1] > 0
        ELSE IF v.a[1] <= 0 /\ v.b[1] <= 0 THEN FALSE
        ELSE IF v.a[1] > 0 THEN RLt(b2, a2)
        ELSE RLt(a2, b2)

PiSub(u, v) == PiTimes(RSub(u.a, v.a), RSub(u.b, v.b))
\* u > v
PiGt(u, v) == PiPositive(PiSub(u, v))

\* theta % (2.0 * PI) for theta = i (sqrt(5) - 1) PI >= 0: theta less the
\* whole turns k in it, 2k <= i (sqrt(5) - 1) < 2k + 2.  The search starts
\* at 0.618 i, just below i (sqrt(5) - 1) / 2, and the two inequalities
\* decide.
WholeTurns(i) ==
    CHOOSE k \in ((618 * i) \div 1000)..i :
        /\ (2 * k + i) * (2 * k + i) <= 5 * i * i
        /\ 5 * i * i < (2 * k + 2 + i) * (2 * k + 2 + i)

\* f64::asin
asin(y) == IF RLe(FromInt(-1), y) /\ RLe(y, FromInt(1)) THEN [asin |-> y]
           ELSE [asin |-> NaN]

\* A denominator that counts the points, not the gaps between them.
SweepDenominatorCount(count) == IF count > 1 THEN count ELSE 1

\* let denominator = if n > 1 { n as f64 - 1.0 } else { 1.0 }
SweepDenominator(count) == IF count > 1 THEN count - 1 ELSE 1

\* The body of the loop of fibonacci_sphere for the index i.
FibonacciPoint(i, denominator) ==
    LET y == RSub(FromInt(1), RMul(Rat(i, denominator), FromInt(2)))
        wrapped == PiTimes(FromInt(-i - 2 * WholeTurns(i)), FromInt(i))
        longitude == IF PiGt(wrapped, PiTimes(FromInt(1), FromInt(0)))
                     THEN PiSub(wrapped, PiTimes(FromInt(2), FromInt(0)))
                     ELSE wrapped
        latitude == asin(y)
    IN  Coord(longitude, latitude)

\* fibonacci_sphere(n): Err(FibonacciError) or Ok(points), in radians.
fibonacci_sphere(count) ==
    IF count = 0
    THEN [result |-> "FibonacciError", value |-> <<>>]
    ELSE LET denominator == SweepDenominator(count)
         IN  IF FLt(FAbs(Ulp(FromInt(denominator), 0)), EPSILON)
             THEN [result |-> "FibonacciError", value |-> <<>>]
             ELSE [result |-> "Ok",
                   value |-> [k \in 1..count |-> FibonacciPoint(k - 1, denominator)]]

\* The largest number of points asked of fibonacci_sphere on its own.
MaxSamples == 120

\* fibonacci_sphere(n): a pure function, callable at any time.
FibonacciSphere(count) ==
    /\ op = "none"
    /\ LET r == fibonacci_sphere(count)
       IN  /\ result' = r.result
           /\ value' = r.value
    /\ op' = "fibonacci_sphere"
    /\ input' = count
    /\ UNCHANGED <<grid, step, polygon, lonlat, clips>>

\* The sampling alone, over the point counts.
NextFib == \E count \in 0..MaxSamples : FibonacciSphere(count)
SpecFib == Init /\ [][NextFib]_vars

---------------------------------------------------------------------------

(* get_mesh_points, generate_polygon_feature_mesh (mesh_generator.rs)      *)
(*                                                                         *)
(* The containment primitive (d3_geo_rs polygon_contains) and the          *)
(* triangulator (ghx_constrained_delaunay) are outside the crate: their    *)
(* answers are inputs of the operations.  The Cartesian image of a point   *)
(* is the value ll_to_cartesian records for it, its two sanitized angles   *)
(* in degrees; the rotated and projected images of these points have no    *)
(* exact form here: each is recorded by the point it is the image of, and  *)
(* whether the rotation or a projection fails is an input of               *)
(* generate_polygon_feature_mesh as well.                                  *)

DEFAULT_FIBONACCI_POINT_COUNT == 3000

\* fibonacci_sphere(DEFAULT_FIBONACCI_POINT_COUNT)
DefaultSamples == fibonacci_sphere(DEFAULT_FIBONACCI_POINT_COUNT)

\* f64::abs on an angle of the spiral
PiAbs(v) == IF PiPositive(v) THEN v ELSE PiTimes(<<-v.a[1], v.a[2]>>, <<-v.b[1], v.b[2]>>)

\* coord! {x: point.x.to_degrees(), y: point.y.to_degrees()}: the angle
\* (a + b sqrt(5)) PI is 180 (a + b sqrt(5)) degrees.
to_degrees(point) ==
    Coord([deg_a |-> RMul(FromInt(180), point.x.a),
           deg_b |-> RMul(FromInt(180), point.x.b)],
          [asin_deg |-> point.y.asin])

\* ll_to_cartesian on a sample that was turned to degrees.  The range check
\* is |longitude| > 180.1 || |latitude| > 90.1, a longitude above 180.1
\* being first of all above 180; the arc sine is at most 90 degrees in size.  A longitude 180 (a + b sqrt(5)) with a and b this
\* small is not within 1e-10 of a limit without being on it, so
\* sanitize_coordinates leaves the angles as they are.
sample_to_cartesian(point) ==
    IF /\ PiGt(PiAbs(point.x), PiTimes(FromInt(1), FromInt(0)))
       /\ PiGt(PiAbs(point.x), PiTimes(RAdd(FromInt(1), Rat(1, 1800)), FromInt(0)))
    THEN [result |-> "CoordinateRangeError",
          value  |-> [longitude |-> to_degrees(point).x,
                      latitude  |-> to_degrees(point).y]]
    ELSE [result |-> "Ok",
          value  |-> [longitude_deg |-> to_degrees(point).x,
                      latitude_deg  |-> to_degrees(point).y]]

\* ll_to_cartesian(point.x, point.y) for a coordinate of the polygon
coord_to_cartesian(c) == ll_to_cartesian(Deg(c.x, 0), Deg(c.y, 0))

\* The indices, in increasing order, of the samples the containment
\* primitive answered true for.
Retained(contains, count) ==
    SelectSeq([i \in 1..count |-> i], LAMBDA i : contains[i])

\* A list that puts the samples ahead of the boundary.
MeshOrderSamplesFirst(boundary, samples) == samples \o boundary

\* mesh_points_2d: the boundary coordinates, then each retained sample.
MeshOrder(boundary, samples) == boundary \o samples

\* The first error among the conversions, if any.
FirstError(converted) ==
    IF \E k \in DOMAIN converted : converted[k].result # "Ok"
    THEN LET k == CHOOSE k \in DOMAIN converted :
                      /\ converted[k].result # "Ok"
                      /\ \A j \in 1..(k - 1) : converted[j].result = "Ok"
         IN  converted[k].result
    ELSE "Ok"

\* The unit of the coordinates of a polygon ("coordinates in decimal
\* degrees") and of the points fibonacci_sphere returns ("in radians").
RingUnit == "degrees"
SampleUnit == "radians"

\* get_mesh_points(polygon), contains[i] being the answer of
\* polygon_contains(&outer_ring, &point) for the i-th sample.  The call
\* hands the primitive the ring as the polygon holds it, in degrees, and
\* the sample as fibonacci_sphere returned it, in radians: tested records
\* the units of the two arguments of the call.
get_mesh_points(poly, contains) ==
    IF poly.exterior = <<>>
    THEN [result |-> "EmptyPointSetError", value |-> <<>>, retained |-> <<>>,
          tested |-> <<>>]
    ELSE IF Len(poly.exterior) < 3
    THEN [result |-> "MeshGenerationError", value |-> <<>>, retained |-> <<>>,
          tested |-> <<>>]
    ELSE IF DefaultSamples.result # "Ok"
    THEN [result |-> DefaultSamples.result, value |-> <<>>, retained |-> <<>>,
          tested |-> <<>>]
    ELSE LET fibonacci_points == DefaultSamples.value
             retained == Retained(contains, DEFAULT_FIBONACCI_POINT_COUNT)
             boundary == [k \in DOMAIN poly.exterior |->
                             coord_to_cartesian(poly.exterior[k])]
             samples == [k \in DOMAIN retained |->
                             sample_to_cartesian(fibonacci_points[retained[k]])]
             converted == MeshOrder(boundary, samples)
             tested == <<[ring |-> RingUnit, point |-> SampleUnit]>>
         IN  IF FirstError(converted) # "Ok"
             THEN [result |-> FirstError(converted), value |-> <<>>,
                   retained |-> retained, tested |-> tested]
             ELSE [result |-> "Ok",
                   value |-> [k \in DOMAIN converted |-> converted[k].value],
                   retained |-> retained, tested |-> tested]

\* Edge { from, to }
Edge(from, to) == [from |-> from, to |-> to]

\* for i in (0..num_points).rev() { edges.push(Edge { from: i,
\*     to: (i + num_points - 1) % num_points }) }
ConstraintEdges(num_points) ==
    [j \in 1..num_points |->
        LET i == num_points - j
        IN  Edge(i, (i + num_points - 1) % num_points)]

\* triangles.into_iter().flat_map(|triangle| triangle.into_iter()).collect()
Flatten(triangles) ==
    [k \in 1..(3 * Len(triangles)) |->
        triangles[1 + ((k - 1) \div 3)][1 + ((k - 1) % 3)]]

\* rotated_points on success: rotated_points.push((p.x, p.y, p.z)) for
\* point in points.iter(), one rotated point per mesh point, in order.
RotatedPoints(points) == [k \in DOMAIN points |-> [rotated |-> points[k]]]

\* projected_points on success: for point in rotated_points
\* { projected_points.push(stereographic_projection(point)?...) }, one
\* projected point per rotated point, in order.
ProjectedPoints(rotated_points) ==
    [k \in DOMAIN rotated_points |-> [projected |-> rotated_points[k]]]

\* constrained_triangulation_from_2d_vertices(&projected_points, &edges,
\* config) on success (ghx_constrained_delaunay): Triangulation.triangles,
\* triples of indices into the vertices handed over.  answer picks one of
\* the triangulations tried: no triangle, the first three vertices, a fan
\* from vertex 0 over all the vertices.
constrained_triangulation_from_2d_vertices(vertices, edges, answer) ==
    IF answer = "none" THEN <<>>
    ELSE IF answer = "first" THEN <<<<0, 1, 2>>>>
    ELSE [k \in 1..(Len(vertices) - 2) |-> <<0, k, k + 1>>]

\* A PolygonMeshData that leaves out the last vertex.
PolygonMeshDataShort(vertices, triangles) ==
    [vertices |-> SubSeq(vertices, 1, Len(vertices) - 1), triangles |-> triangles]

\* PolygonMeshData { vertices, triangles }
PolygonMeshData(vertices, triangles) ==
    [vertices |-> vertices, triangles |-> triangles]

\* generate_polygon_feature_mesh(polygon) from let edges on, mesh_points
\* being what get_mesh_points(polygon)? answered.  outcome is how the calls
\* after it end: "RotationError", "ProjectionError", "TriangulationError"
\* or "Ok", and answer is what the triangulator answers in the last case.
\* edges are the constraint edges handed to the triangulator, when it is
\* called.
MeshFromPoints(mesh_points, num_points, outcome, answer) ==
    IF mesh_points.result # "Ok"
    THEN [result |-> mesh_points.result, vertices |-> <<>>,
          triangles |-> <<>>, edges |-> <<>>]
    ELSE IF outcome \in {"RotationError", "ProjectionError"}
    THEN [result |-> outcome, vertices |-> <<>>, triangles |-> <<>>,
          edges |-> <<>>]
    ELSE IF outcome = "TriangulationError"
    THEN [result |-> outcome, vertices |-> <<>>, triangles |-> <<>>,
          edges |-> ConstraintEdges(num_points)]
    ELSE [result |-> "Ok", edges |-> ConstraintEdges(num_points)]
         @@ PolygonMeshData(
                mesh_points.value,
                Flatten(constrained_triangulation_from_2d_vertices(
                            ProjectedPoints(RotatedPoints(mesh_points.value)),
                            ConstraintEdges(num_points), answer)))

\* generate_polygon_feature_mesh(polygon)
generate_polygon_feature_mesh(poly, contains, outcome, answer) ==
    MeshFromPoints(get_mesh_points(poly, contains), Len(poly.exterior),
                   outcome, answer)

\* The polygons meshed: rings of 0, 1, 2, 3, 4 and 5 coordinates, in
\* range, inside the tolerance and out of range.
MeshRings ==
    {<<>>,
     <<Coord(FromInt(10), FromInt(20))>>,
     <<Coord(FromInt(10), FromInt(20)), Coord(FromInt(10), FromInt(20))>>,
     <<Coord(FromInt(10), FromInt(20)), Coord(FromInt(30), FromInt(20))>>,
     <<Coord(FromInt(0), FromInt(0)), Coord(FromInt(60), FromInt(0)),
       Coord(FromInt(0), FromInt(60))>>,
     <<Coord(FromInt(0), FromInt(0)), Coord(FromInt(60), FromInt(0)),
       Coord(FromInt(60), FromInt(60)), Coord(FromInt(0), FromInt(60))>>,
     <<Coord(FromInt(170), FromInt(0)), Coord(Rat(18005, 100), FromInt(0)),
       Coord(FromInt(170), FromInt(10))>>,
     <<Coord(FromInt(0), FromInt(0)), Coord(FromInt(200), FromInt(0)),
       Coord(FromInt(0), FromInt(60))>>}
MeshPolygons == {PolygonNew(ring, <<>>) : ring \in MeshRings}

\* The answers of the containment primitive tried: no sample, every
\* sample, the second and third, one sample in a thousand.
ContainsAnswers ==
    {[i \in 1..DEFAULT_FIBONACCI_POINT_COUNT |-> FALSE],
     [i \in 1..DEFAULT_FIBONACCI_POINT_COUNT |-> TRUE],
     [i \in 1..DEFAULT_FIBONACCI_POINT_COUNT |-> i \in {2, 3}],
     [i \in 1..DEFAULT_FIBONACCI_POINT_COUNT |-> i % 1000 = 1]}

\* The answers of the triangulator tried.
TriangulatorAnswers == {"none", "first", "fan"}

MeshOutcomes == {"RotationError", "ProjectionError", "TriangulationError", "Ok"}

\* get_mesh_points(&poly)
GetMeshPoints(poly, contains) ==
    /\ op = "none"
    /\ LET r == get_mesh_points(poly, contains)
       IN  /\ result' = r.result
           /\ value' = [points |-> r.value, retained |-> r.retained,
                        tested |-> r.tested]
    /\ op' = "get_mesh_points"
    /\ polygon' = poly
    /\ input' = [contains |-> contains]
    /\ UNCHANGED <<grid, step, lonlat, clips>>

\* generate_polygon_feature_mesh(&poly)
GeneratePolygonFeatureMesh(poly, contains, outcome, answer) ==
    /\ op = "none"
    /\ \E r \in {generate_polygon_feature_mesh(poly, contains, outcome, answer)} :
          /\ result' = r.result
          /\ value' = [vertices |-> r.vertices, triangles |-> r.triangles,
                       edges |-> r.edges]
    /\ op' = "generate_polygon_feature_mesh"
    /\ polygon' = poly
    /\ input' = [contains |-> contains]
    /\ UNCHANGED <<grid, step, lonlat, clips>>

\* The mesh generator, over the polygons and the answers of the primitives.
NextMesh ==
    \/ \E poly \in MeshPolygons, contains \in ContainsAnswers :
          GetMeshPoints(poly, contains)
    \/ \E poly \in MeshPolygons, contains \in ContainsAnswers,
          outcome \in MeshOutcomes, answer \in TriangulatorAnswers :
          GeneratePolygonFeatureMesh(poly, contains, outcome, answer)
SpecMesh == Init /\ [][NextMesh]_vars

---------------------------------------------------------------------------

(* densify_edges on its own, as clip_polygon_to_tiles calls it on a        *)
(* fragment.                                                               *)

\* The longest side, in tenths of a degree, of the fragments densified.
MaxSide == 11

\* The corners, in tenths of a degree, the fragments densified are placed
\* at: the origin, where a side is the f64 of its own length, and corners
\* from which a side of 0.5 or 1.0 computes as more, or as less.
DensifyCorners == {<<0, 0>>, <<6, 0>>, <<3, 7>>, <<-30, 12>>, <<-1, -4>>}

\* The fragments densified: rectangles and right triangles, with sides
\* below, at and above the maximum distance.
DensifyInputs ==
    {RectPolygon(<<c[1], c[2], c[1] + w, c[2] + h>>) :
         c \in DensifyCorners, w \in 1..MaxSide, h \in 1..MaxSide}
    \cup {PolygonNew(<<Coord(Rat(c[1], 10), Rat(c[2], 10)),
                       Coord(Rat(c[1] + w, 10), Rat(c[2], 10)),
                       Coord(Rat(c[1], 10), Rat(c[2] + h, 10))>>, <<>>) :
             c \in DensifyCorners, w \in 1..MaxSide, h \in 1..MaxSide}

\* densify_edges(&mut fragment, DEFAULT_MAX_DISTANCE_BETWEEN_POINTS)
DensifyEdges(poly) ==
    /\ op = "none"
    /\ value' = densify_edges(poly, DEFAULT_MAX_DISTANCE_BETWEEN_POINTS)
    /\ result' = "Ok"
    /\ op' = "densify_edges"
    /\ polygon' = poly
    /\ UNCHANGED <<grid, step, lonlat, clips, input>>

NextDensify == \E poly \in DensifyInputs : DensifyEdges(poly)
SpecDensify == Init /\ [][NextDensify]_vars

---------------------------------------------------------------------------

(* Geometry used to state the claims.                                      *)

\* The set of coordinates of a ring.
RingCoords(ring) == {ring[k] : k \in DOMAIN ring}

\* The rectangle spanned by a non-empty ring: <<min_x, max_x, min_y, max_y>>.
Bounds(ring) ==
    LET xs == {ring[k].x : k \in DOMAIN ring}
        ys == {ring[k].y : k \in DOMAIN ring}
    IN  <<CHOOSE a \in xs : \A b \in xs : RLe(a, b),
          CHOOSE a \in xs : \A b \in xs : RLe(b, a),
          CHOOSE a \in ys : \A b \in ys : RLe(a, b),
          CHOOSE a \in ys : \A b \in ys : RLe(b, a)>>

\* The four corners of the rectangle r = <<min_x, max_x, min_y, max_y>>.
Corners(r) ==
    {Coord(r[1], r[3]), Coord(r[2], r[3]), Coord(r[1], r[4]), Coord(r[2], r[4])}

\* Two rectangles share a region of positive area.
OverlapPositive(r, q) ==
    /\ RLt(r[1], q[2]) /\ RLt(q[1], r[2])
    /\ RLt(r[3], q[4]) /\ RLt(q[3], r[4])

\* The step-by-step cell whose bottom-left corner is (a, b).
Cell(a, b, s) == <<FromInt(a), FromInt(a + s), FromInt(b), FromInt(b + s)>>

\* step divides both 360 and 180.
Divides(s) == s # 0 /\ 360 % s = 0 /\ 180 % s = 0

---------------------------------------------------------------------------
(* Claims                                                                  *)

\* C1: for every step dividing 360 and 180, generate_grid returns exactly
\* (360/step)*(180/step) tiles, each with an empty fragment list.
C1_TileCount ==
    (op = "generate_grid" /\ Divides(step)) =>
        /\ result = "Ok"
        /\ Len(grid) = (360 \div step) * (180 \div step)
        /\ \A n \in DOMAIN grid : grid[n].polygons = <<>>

C1_Witness ==
    /\ op = "generate_grid" /\ step = 90 /\ result = "Ok"
    /\ Len(grid) = 8
    /\ \A n \in DOMAIN grid : grid[n].polygons = <<>>

\* C2 (as claimed): every generated tile has a single boundary ring that
\* visits the four corners of its cell in perimeter order, so every ring
\* edge, the closing edge included, is horizontal or vertical.
C2_PerimeterOrder ==
    (op = "generate_grid" /\ result = "Ok") =>
        \A n \in DOMAIN grid :
            LET ring == grid[n].vertices.exterior
            IN  /\ grid[n].vertices.interiors = <<>>
                /\ RingCoords(ring) = Corners(Bounds(ring))
                /\ \A k \in 1..(Len(ring) - 1) :
                       ring[k].x = ring[k + 1].x \/ ring[k].y = ring[k + 1].y

\* C3: for every valid step the tile rectangles partition the globe: every
\* step-by-step cell offset from (-180,-90) is the rectangle of exactly one
\* tile, no two tiles overlap with positive area, and no tile corner lies
\* outside [-180,180] x [-90,90].
C3_Partition ==
    (op = "generate_grid" /\ Divides(step)) =>
        LET rect == [n \in DOMAIN grid |-> Bounds(grid[n].vertices.exterior)]
        IN  /\ \A n \in DOMAIN grid :
                   RingCoords(grid[n].vertices.exterior) = Corners(rect[n])
            /\ \A ka \in 0..((360 \div step) - 1), kb \in 0..((180 \div step) - 1) :
                   Cardinality({n \in DOMAIN grid :
                       rect[n] = Cell(-180 + ka * step, -90 + kb * step, step)}) = 1
            /\ \A m, n \in DOMAIN grid :
                   m < n => ~OverlapPositive(rect[m], rect[n])
            /\ \A n \in DOMAIN grid :
                   /\ RLe(FromInt(-180), rect[n][1]) /\ RLe(rect[n][2], FromInt(180))
                   /\ RLe(FromInt(-90), rect[n][3]) /\ RLe(rect[n][4], FromInt(90))

C3_Witness ==
    /\ op = "generate_grid" /\ step = 60 /\ result = "Ok"
    /\ \E n \in DOMAIN grid :
          Bounds(grid[n].vertices.exterior) = Cell(120, 30, 60)

\* C4: generate_grid fails with a grid-configuration error exactly when
\* step = 0, step > 180, 360 mod step # 0 or 180 mod step # 0, succeeds
\* otherwise, and a failure produces no tile.
C4_StepErrors ==
    op = "generate_grid" =>
        IF step = 0 \/ step > 180 \/ 360 % step # 0 \/ 180 % step # 0
        THEN result = "GridGenerationError" /\ grid = <<>>
        ELSE result = "Ok" /\ Len(grid) > 0

C4_Witness ==
    /\ op = "generate_grid" /\ step = 7
    /\ result = "GridGenerationError" /\ grid = <<>>

\* A coordinate lies in the rectangle r = <<min_x, max_x, min_y, max_y>>.
InRect(c, r) ==
    /\ RLe(r[1], c.x) /\ RLe(c.x, r[2])
    /\ RLe(r[3], c.y) /\ RLe(c.y, r[4])

\* The ring holds a NaN or infinite coordinate.
NonFinite(ring) ==
    \E k \in DOMAIN ring : ring[k].x[2] = 0 \/ ring[k].y[2] = 0

\* The sign of |a b|^2 - (m * 0.5)^2, |a b| being the distance between the
\* f64 values the coordinates a and b hold.  With b.x - a.x = qx + ex 2^-53
\* and b.y - a.y = qy + ey 2^-53, |a b|^2 is (qx^2 + qy^2)
\* + 2 (qx ex + qy ey) 2^-53 + (ex^2 + ey^2) 2^-106: the three terms are
\* compared in this order, a later one deciding when the earlier ones are
\* level, 2^-53 being far below the rationals compared.
LengthAgainst(a, b, m) ==
    LET qx == QAdd(f64(b.x).q, <<-f64(a.x).q[1], f64(a.x).q[2]>>)
        qy == QAdd(f64(b.y).q, <<-f64(a.y).q[1], f64(a.y).q[2]>>)
        ex == QAdd(f64(b.x).e, <<-f64(a.x).e[1], f64(a.x).e[2]>>)
        ey == QAdd(f64(b.y).e, <<-f64(a.y).e[1], f64(a.y).e[2]>>)
        s0 == QAdd(QAdd(QMul(qx, qx), QMul(qy, qy)), Rat(-(m * m), 4))
        s1 == QAdd(QMul(qx, ex), QMul(qy, ey))
        s2 == QAdd(QMul(ex, ex), QMul(ey, ey))
    IN  IF s0[1] # 0 THEN Sgn(s0[1])
        ELSE IF s1[1] # 0 THEN Sgn(s1[1])
        ELSE Sgn(s2[1])

\* The segment between the f64 coordinates a and b is at most 0.5 long.
WithinHalfDegree(a, b) == LengthAgainst(a, b, 1) <= 0

\* C5 (as claimed): clip returns an invalid-polygon error for every polygon
\* whose boundary ring has fewer than 4 coordinates, the empty ring
\* included, or holds a NaN or infinite coordinate.
C5_InvalidPolygon ==
    (op = "clip_polygon_to_tiles"
        /\ (Len(polygon.exterior) < 4 \/ NonFinite(polygon.exterior)))
    => result = "InvalidPolygonError"

\* C6: across clip and clamp calls the number of tiles and every tile's
\* boundary stay the same and each fragment list is append-only: a clip
\* leaves the fragments already there in place, unchanged, ahead of the
\* ones it adds; a clamp keeps the number and order of the fragments, the
\* shape of each (ring lengths, holes) and every coordinate already inside
\* the tile.
C6_AppendOnly ==
    [][ (op' \in {"clip_polygon_to_tiles", "clamp_polygons"}) =>
          /\ Len(grid') = Len(grid)
          /\ \A n \in DOMAIN grid :
                LET old == grid[n].polygons
                    new == grid'[n].polygons
                IN  /\ grid'[n].vertices = grid[n].vertices
                    /\ Len(new) >= Len(old)
                    /\ IF op' = "clip_polygon_to_tiles"
                       THEN SubSeq(new, 1, Len(old)) = old
                       ELSE /\ Len(new) = Len(old)
                            /\ \A k \in DOMAIN old :
                                  /\ new[k].interiors = old[k].interiors
                                  /\ Len(new[k].exterior) = Len(old[k].exterior)
                                  /\ \A j \in DOMAIN old[k].exterior :
                                        InRect(old[k].exterior[j],
                                               Bounds(grid[n].vertices.exterior))
                                        => new[k].exterior[j] = old[k].exterior[j]
      ]_vars

\* Two successful clips have each added one fragment to a tile that held
\* two before, and a clamp has run on fragments reaching outside the tile.
C6_Witness ==
    /\ op = "clamp_polygons" /\ clips = 2
    /\ Len(grid) = 1 /\ Len(grid[1].polygons) = 4
    /\ \E j \in DOMAIN grid[1].polygons[1].exterior :
          grid[1].polygons[1].exterior[j].x = FromInt(0)
    /\ Len(grid[1].polygons[4].exterior) = 5

C8_EdgesWithinMax ==
    [][ (op' = "clip_polygon_to_tiles" /\ result' = "Ok") =>
          \A n \in DOMAIN grid :
              \A k \in (Len(grid[n].polygons) + 1)..Len(grid'[n].polygons) :
                  LET ring == grid'[n].polygons[k].exterior
                  IN  /\ Len(ring) >= 4
                      /\ ring[Len(ring)] = ring[1]
                      /\ \A j \in 1..(Len(ring) - 1) :
                            WithinHalfDegree(ring[j], ring[j + 1])
      ]_vars

\* C9 (as claimed): after clamp_polygons every coordinate of every
\* fragment, in its boundary ring and in any hole ring, lies within the
\* rectangle spanned by its tile's boundary ring.
C9_ClampedInside ==
    op = "clamp_polygons" =>
        \A n \in DOMAIN grid :
            \A k \in DOMAIN grid[n].polygons :
                LET r == Bounds(grid[n].vertices.exterior)
                    f == grid[n].polygons[k]
                IN  /\ \A j \in DOMAIN f.exterior : InRect(f.exterior[j], r)
                    /\ \A h \in DOMAIN f.interiors :
                          \A j \in DOMAIN f.interiors[h] : InRect(f.interiors[h][j], r)

\* The magnitude of the angle a exceeds t tenths of a degree.
MagnitudeAbove(a, t) ==
    \/ a.q \in {PosInf, NegInf}
    \/ /\ a.q[2] # 0
       /\ \/ a.q[1] * 10 > t * a.q[2]
          \/ (a.q[1] * 10 = t * a.q[2] /\ a.e > 0)
          \/ a.q[1] * 10 < (-t) * a.q[2]
          \/ (a.q[1] * 10 = (-t) * a.q[2] /\ a.e < 0)

\* C10: ll_to_cartesian fails with a coordinate-range error exactly when
\* |lon| > 180.1 or |lat| > 90.1, the error carrying the rejected longitude
\* and latitude, and succeeds on every other finite input.
C10_RangeError ==
    op = "ll_to_cartesian" =>
        IF MagnitudeAbove(lonlat[1], 1801) \/ MagnitudeAbove(lonlat[2], 901)
        THEN /\ result = "CoordinateRangeError"
             /\ value = [longitude |-> lonlat[1], latitude |-> lonlat[2]]
        ELSE /\ result # "CoordinateRangeError"
             /\ (lonlat[1].q[2] # 0 /\ lonlat[2].q[2] # 0) => result = "Ok"

\* ll_to_cartesian(200, 0) has failed with the error carrying (200, 0).
C10_Witness ==
    /\ op = "ll_to_cartesian"
    /\ lonlat = <<Deg(FromInt(200), 0), Deg(FromInt(0), 0)>>
    /\ result = "CoordinateRangeError"
    /\ value = [longitude |-> Deg(FromInt(200), 0), latitude |-> Deg(FromInt(0), 0)]

\* C11 (as claimed): for every (longitude, latitude) ll_to_cartesian
\* accepts, the angles converted to Cartesian form lie within [-180,180]
\* and [-90,90].
C11_ConvertedInRange ==
    (op = "ll_to_cartesian" /\ result = "Ok") =>
        /\ FGe(value.longitude_deg, FNeg(Deg180))
        /\ FLe(value.longitude_deg, Deg180)
        /\ FGe(value.latitude_deg, FNeg(Deg90))
        /\ FLe(value.latitude_deg, Deg90)

\* v is the quotient a / b of a = [q, 0] by b # 0: v * b = a, at the scale
\* of b.
IsQuotient(v, a, b) ==
    IF b.q # FromInt(0)
    THEN v.exp2 = 0 /\ RMul(v.m, b.q) = a.q
    ELSE /\ RMul(v.m, FromInt(b.e)) = a.q
         /\ (a.q # FromInt(0) => v.exp2 = 53)

\* C12: stereographic_projection((x, y, z)) fails with a projection error
\* exactly when |z - 1| < 2^-52 and otherwise returns
\* (x / (1 - z), y / (1 - z)); (0,0,1) fails and (0,0,-1) maps to (0,0).
C12_ProjectionError ==
    op = "stereographic_projection" =>
        LET z == input[3]
            d == FSub(Ulp(FromInt(1), 0), z)
        IN  IF z.q = FromInt(1) /\ z.e > -2 /\ z.e < 2
            THEN result = "ProjectionError" /\ value = <<>>
            ELSE /\ result = "Ok"
                 /\ IsQuotient(value.x, input[1], d)
                 /\ IsQuotient(value.y, input[2], d)
                 /\ (input = <<Ulp(FromInt(0), 0), Ulp(FromInt(0), 0),
                               Ulp(FromInt(-1), 0)>>
                       => value = Coord(Scaled(FromInt(0), 0), Scaled(FromInt(0), 0)))

\* A point one EPSILON below the pole has been projected, to 2^52 times its
\* x and y.
C12_Witness ==
    /\ op = "stereographic_projection"
    /\ input = <<Ulp(Rat(4, 5), 0), Ulp(FromInt(1), 0), Ulp(FromInt(1), -2)>>
    /\ result = "Ok"
    /\ value = Coord(Scaled(Rat(2, 5), 53), Scaled(Rat(1, 2), 53))


\* The centroid of the point set handed to rotate_points_to_south_pole.
InputCentroid == Centroid(input.points)

\* The length of that centroid is below EPSILON = 2^-52: at the scale 2^-53
\* its square is below 4 units, at the ordinary scale it is zero; a
\* centroid next to the z axis is as long as its z.
CentroidBelowEpsilon ==
    IF input.exp2 = -53
    THEN RLt(Dot(InputCentroid, InputCentroid), FromInt(4))
    ELSE Leading(InputCentroid, input.plane)
            = Vector3(FromInt(0), FromInt(0), FromInt(0))

\* The centroid points to the north pole (0,0,1), the opposite of the
\* target: no rotation between the two is derived.
CentroidNorth ==
    /\ InputCentroid[1] = FromInt(0)
    /\ InputCentroid[2] = FromInt(0)
    /\ RLt(FromInt(0), InputCentroid[3])

\* The square of the distance from the z axis of the direction of the
\* vector a, in units of 2^(2 plane): (x^2 + y^2) / |a|^2.
AxisDistance2(a, plane) ==
    RDiv(RAdd(RMul(a[1], a[1]), RMul(a[2], a[2])),
         Dot(Leading(a, plane), Leading(a, plane)))

\* The direction of the centroid is within EPSILON of the north pole: it
\* points up and is at most EPSILON = 2^-52 from the z axis.
CentroidNearNorth ==
    /\ RLt(FromInt(0), InputCentroid[3])
    /\ ~SquareAbove(AxisDistance2(InputCentroid, input.plane), input.plane, -104)

\* C13: rotate_points_to_south_pole fails with an empty-set error on zero
\* points, with a rotation error when the length of the mean vector is
\* below epsilon, and with a rotation error when no rotation from the
\* centroid direction to (0,0,-1) can be derived; a failure returns no
\* rotated set.
C13_RotationErrors ==
    op = "rotate_points_to_south_pole" =>
        /\ input.points = <<>> => result = "EmptyPointSetError"
        /\ (input.points # <<>> /\ CentroidBelowEpsilon) => result = "RotationError"
        /\ (input.points # <<>> /\ ~CentroidBelowEpsilon /\ CentroidNorth)
              => result = "RotationError"
        /\ result # "Ok" => value = <<>>

\* Two points of the northern hemisphere whose mean is (0,0,4/5) have been
\* refused.
C13_Witness ==
    /\ op = "rotate_points_to_south_pole"
    /\ input = [points |-> <<Vector3(FromInt(0), Rat(3, 5), Rat(4, 5)),
                             Vector3(FromInt(0), Rat(-3, 5), Rat(4, 5))>>,
                exp2 |-> 0, plane |-> 0]
    /\ result = "RotationError" /\ value = <<>>

\* The rotated set has the length and order of the input, is its image
\* under one rotation and has a centroid that points down, its direction
\* within 2^-24 (6e-8) of the z axis.  Under one rotation: with plane = 0
\* the dot products between points and the triple products with the
\* centroid are kept; next to the z axis the leading term of the distance
\* of each point from the origin and from each other point is kept.
RotatedToSouthPole ==
    LET pts == input.points
        center == Centroid(value)
        Length2(a) == Dot(Leading(a, input.plane), Leading(a, input.plane))
        Minus(a, b) == VAdd(a, VScale(b, FromInt(-1)))
    IN  /\ result = "Ok"
        /\ Len(value) = Len(pts)
        /\ input.plane = 0 =>
              /\ \A i, j \in DOMAIN pts :
                    /\ Dot(value[i], value[j]) = Dot(pts[i], pts[j])
                    /\ Dot(Cross(value[i], value[j]), center)
                         = Dot(Cross(pts[i], pts[j]), InputCentroid)
              /\ \A i \in DOMAIN pts :
                    Dot(value[i], center) = Dot(pts[i], InputCentroid)
        /\ input.plane # 0 =>
              \A i, j \in DOMAIN pts :
                  /\ Length2(value[i]) = Length2(pts[i])
                  /\ Length2(Minus(value[i], value[j])) = Length2(Minus(pts[i], pts[j]))
        /\ RLt(center[3], FromInt(0))
        /\ ~SquareAbove(AxisDistance2(center, input.plane), input.plane, -48)

\* C14 (as claimed): rotating any point set whose centroid is nonzero
\* yields a rotated set of the same length and order, the image of the
\* input under one rotation, whose centroid direction is (0,0,-1).
C14_RotatesNonzero ==
    (op = "rotate_points_to_south_pole" /\ input.points # <<>>
        /\ InputCentroid # Vector3(FromInt(0), FromInt(0), FromInt(0)))
    => (RotatedToSouthPole
          /\ Centroid(value)[1] = FromInt(0) /\ Centroid(value)[2] = FromInt(0))

\* C14 (amended): rotating any point set whose centroid is at least
\* epsilon long and whose direction is not within epsilon of the north pole
\* (0,0,1) yields a rotated set of the same length and order, the image of
\* the input under one rotation, whose centroid direction is (0,0,-1) to
\* within 1e-7.
C14_RotatesAligned ==
    (op = "rotate_points_to_south_pole" /\ input.points # <<>>
        /\ ~CentroidBelowEpsilon /\ ~CentroidNearNorth)
    => RotatedToSouthPole

\* (3,0,0) and (0,4,0), of centroid (3/2,2,0), have been rotated.
C14_Witness ==
    /\ op = "rotate_points_to_south_pole"
    /\ input = [points |-> <<Vector3(FromInt(3), FromInt(0), FromInt(0)),
                             Vector3(FromInt(0), FromInt(4), FromInt(0))>>,
                exp2 |-> 0, plane |-> 0]
    /\ result = "Ok"
    /\ value = <<Vector3(Rat(48, 25), Rat(-36, 25), Rat(-9, 5)),
                 Vector3(Rat(-48, 25), Rat(36, 25), Rat(-16, 5))>>

\* C15: fibonacci_sphere(0) fails with a sampling error; for n >= 1 it
\* returns exactly n points, each of latitude in [-PI/2, PI/2] and
\* longitude in (-PI, PI], the first at latitude PI/2 and, for n > 1, the
\* last at latitude -PI/2.
C15_SphereSamples ==
    op = "fibonacci_sphere" =>
        IF input = 0
        THEN result = "FibonacciError" /\ value = <<>>
        ELSE /\ result = "Ok"
             /\ Len(value) = input
             /\ \A k \in DOMAIN value :
                   /\ value[k].y.asin # NaN
                   /\ RLe(FromInt(-1), value[k].y.asin)
                   /\ RLe(value[k].y.asin, FromInt(1))
                   /\ PiGt(value[k].x, PiTimes(FromInt(-1), FromInt(0)))
                   /\ ~PiGt(value[k].x, PiTimes(FromInt(1), FromInt(0)))
             /\ value[1].y.asin = FromInt(1)
             /\ input > 1 => value[input].y.asin = FromInt(-1)

\* Three points have been sampled: the poles, and between them the point
\* of latitude 0 and longitude (sqrt(5) - 3) PI, one golden angle less a
\* turn.
C15_Witness ==
    /\ op = "fibonacci_sphere" /\ input = 3 /\ result = "Ok"
    /\ value = <<Coord(PiTimes(FromInt(0), FromInt(0)), [asin |-> FromInt(1)]),
                 Coord(PiTimes(FromInt(-3), FromInt(1)), [asin |-> FromInt(0)]),
                 Coord(PiTimes(FromInt(-4), FromInt(2)), [asin |-> FromInt(-1)])>>

\* C16 (as claimed): the constraint edges handed to the triangulator are
\* one per boundary edge of the ring and no others: over the k ring
\* coordinates (indices 0..k-1, k - 1 boundary edges) every edge joins a
\* vertex to its predecessor, the two at distinct positions, and the edges
\* come in descending vertex order.
C16_OneEdgePerBoundaryEdge ==
    (op = "generate_polygon_feature_mesh" /\ value.edges # <<>>) =>
        LET ring == polygon.exterior
            k == Len(ring)
            edges == value.edges
        IN  /\ Len(edges) = k - 1
            /\ \A j \in DOMAIN edges :
                  /\ edges[j].from \in 0..(k - 1)
                  /\ edges[j].to \in 0..(k - 1)
                  /\ edges[j].to = (edges[j].from + k - 1) % k
                  /\ ring[edges[j].from + 1] # ring[edges[j].to + 1]
            /\ \A j \in 1..(Len(edges) - 1) : edges[j].from > edges[j + 1].from

\* C17: whenever generate_polygon_feature_mesh succeeds, its vertices are
\* the list get_mesh_points returns for the same polygon: the original
\* points, not their rotated or projected images, first the image under
\* ll_to_cartesian of each coordinate of the ring, in order, then one point
\* per retained sample; the flattened triangle list has a length divisible
\* by 3 and every triangle index is below the number of vertices.
C17_MeshData ==
    (op = "generate_polygon_feature_mesh" /\ result = "Ok") =>
        /\ value.vertices = get_mesh_points(polygon, input.contains).value
        /\ Len(value.vertices)
             = Len(polygon.exterior)
               + Cardinality({i \in 1..DEFAULT_FIBONACCI_POINT_COUNT : input.contains[i]})
        /\ \A k \in DOMAIN value.vertices :
              DOMAIN value.vertices[k] = {"longitude_deg", "latitude_deg"}
        /\ \A k \in DOMAIN polygon.exterior :
              value.vertices[k] = coord_to_cartesian(polygon.exterior[k]).value
        /\ Len(value.vertices) >= 3
        /\ Len(value.triangles) % 3 = 0
        /\ \A t \in DOMAIN value.triangles :
              value.triangles[t] >= 0 /\ value.triangles[t] < Len(value.vertices)

\* The square with two retained samples has been meshed into a fan of five
\* triangles over its 7 vertices, the last of them vertex 6.
C17_Witness ==
    /\ op = "generate_polygon_feature_mesh" /\ result = "Ok"
    /\ Len(polygon.exterior) = 5
    /\ Len(value.vertices) = 7
    /\ value.triangles = <<0, 1, 2, 0, 2, 3, 0, 3, 4, 0, 4, 5, 0, 5, 6>>

\* The coordinate lies in [-180,180] x [-90,90].
InRange(c) ==
    /\ RLe(FromInt(-180), c.x) /\ RLe(c.x, FromInt(180))
    /\ RLe(FromInt(-90), c.y) /\ RLe(c.y, FromInt(90))

\* C18: get_mesh_points fails with an empty-set error on an empty ring and
\* with a mesh-generation error on a ring of 1 or 2 coordinates; for a
\* ring of k >= 3 in-range coordinates it returns the Cartesian images of
\* the k coordinates in ring order, then those of the retained samples in
\* sampling order.
C18_MeshPoints ==
    op = "get_mesh_points" =>
        LET ring == polygon.exterior
            k == Len(ring)
        IN  IF k = 0 THEN result = "EmptyPointSetError" /\ value.points = <<>>
            ELSE IF k < 3 THEN result = "MeshGenerationError" /\ value.points = <<>>
            ELSE (\A j \in 1..k : InRange(ring[j])) =>
                /\ result = "Ok"
                /\ Len(value.points) = k + Len(value.retained)
                /\ \A j \in 1..k :
                      value.points[j] = coord_to_cartesian(ring[j]).value
                /\ \A j \in DOMAIN value.retained :
                      value.points[k + j] =
                          sample_to_cartesian(DefaultSamples.value[value.retained[j]]).value
                /\ \A j \in 1..(Len(value.retained) - 1) :
                      value.retained[j] < value.retained[j + 1]

\* The square has been given its 5 boundary images and those of the second
\* and third samples; the second sample lies at longitude
\* 180 (sqrt(5) - 3) degrees and latitude asin(2997/2999).
C18_Witness ==
    /\ op = "get_mesh_points" /\ result = "Ok"
    /\ Len(polygon.exterior) = 5
    /\ value.retained = <<2, 3>>
    /\ Len(value.points) = 7
    /\ value.points[2] = [longitude_deg |-> Deg(FromInt(60), 0),
                          latitude_deg |-> Deg(FromInt(0), 0)]
    /\ value.points[6] = [longitude_deg |-> [deg_a |-> FromInt(-540),
                                             deg_b |-> FromInt(180)],
                          latitude_deg |-> [asin_deg |-> Rat(2997, 2999)]]

\* C19 (as claimed): get_mesh_points retains a sample exactly when the
\* containment test answers true for it, and the test is applied to a
\* sample position and boundary coordinates expressed in the same angular
\* unit.
C19_ContainmentSameUnit ==
    (op = "get_mesh_points" /\ result = "Ok") =>
        /\ \A i \in 1..DEFAULT_FIBONACCI_POINT_COUNT :
              input.contains[i] <=> (\E j \in DOMAIN value.retained : value.retained[j] = i)
        /\ \A t \in DOMAIN value.tested : value.tested[t].ring = value.tested[t].point

\* The number of pieces ceil(d / 0.5) for the edge a b of length d, 1 for
\* an edge without length: the least m with m * 0.5 >= d; limit bounds the
\* search.
Pieces(a, b, limit) ==
    CHOOSE m \in 1..limit :
        /\ LengthAgainst(a, b, m) <= 0
        /\ m > 1 => LengthAgainst(a, b, m - 1) > 0

\* The place in the densified ring of the k-th coordinate of ring.
RECURSIVE PlaceOf(_, _, _)
PlaceOf(ring, k, limit) ==
    IF k = 1 THEN 1
    ELSE PlaceOf(ring, k - 1, limit) + Pieces(ring[k - 1], ring[k], limit)

\* The step from a to b between the f64 values held, on each axis: the
\* rational part and the part in units of 2^-53.
StepBetween(a, b) ==
    <<QAdd(f64(b.x).q, <<-f64(a.x).q[1], f64(a.x).q[2]>>),
      QAdd(f64(b.x).e, <<-f64(a.x).e[1], f64(a.x).e[2]>>),
      QAdd(f64(b.y).q, <<-f64(a.y).q[1], f64(a.y).q[2]>>),
      QAdd(f64(b.y).e, <<-f64(a.y).e[1], f64(a.y).e[2]>>)>>

\* Two steps are the same up to the rounding of the coordinates stored: the
\* rational parts agree and the parts in units of 2^-53 differ by at most
\* 512, that is by 2^-44, some ulps of a coordinate below 64 degrees.
SameStep(s, t) ==
    /\ s[1] = t[1]
    /\ s[3] = t[3]
    /\ \A i \in {2, 4} :
          LET diff == QAdd(s[i], <<-t[i][1], t[i][2]>>)
          IN  RLe(<<Abs(diff[1]), diff[2]>>, FromInt(512))

\* C20 (as claimed): densifying a fragment's boundary ring keeps every
\* original coordinate, in order, and leaves the ring closed; an edge of
\* length d above 0.5 gets exactly ceil(d / 0.5) - 1 points strictly
\* between its ends, equally spaced (every step from one point of the edge
\* to the next is the same up to the rounding of the coordinates), and an
\* edge of at most 0.5 gets none; the lengths are those between the f64
\* coordinates held.
C20_DensifyKeepsRing ==
    op = "densify_edges" =>
        LET old == polygon.exterior
            new == value.exterior
            limit == Len(new) + 1
        IN  /\ new[1] = new[Len(new)]
            /\ value.interiors = polygon.interiors
            /\ Len(new) = PlaceOf(old, Len(old), limit)
            /\ \A k \in DOMAIN old : new[PlaceOf(old, k, limit)] = old[k]
            /\ \A k \in 1..(Len(old) - 1) :
                  \A j \in 1..(Pieces(old[k], old[k + 1], limit) - 1) :
                      SameStep(StepBetween(new[PlaceOf(old, k, limit) + j - 1],
                                           new[PlaceOf(old, k, limit) + j]),
                               StepBetween(new[PlaceOf(old, k, limit) + j],
                                           new[PlaceOf(old, k, limit) + j + 1]))

\* C21 (as claimed): every tile generate_grid produces has a boundary ring
\* of exactly 4 coordinates.
C21_RingFourCoords ==
    (op = "generate_grid" /\ result = "Ok") =>
        \A k \in DOMAIN grid : Len(grid[k].vertices.exterior) = 4

\* C22: when clip_polygon_to_tiles fails with an invalid-polygon error no
\* tile has been modified: the grid, every tile's boundary and fragment
\* list, is what it was before the call.
C22_FailedClipLeavesTiles ==
    [][ (op' = "clip_polygon_to_tiles" /\ result' = "InvalidPolygonError") =>
          grid' = grid ]_vars

\* A ring of 5 coordinates, the fourth infinite, has been refused by the
\* second clip of a grid that holds a fragment from the first.
C22_Witness ==
    /\ op = "clip_polygon_to_tiles" /\ result = "InvalidPolygonError"
    /\ clips = 2
    /\ Len(polygon.exterior) = 5
    /\ NonFinite(polygon.exterior)
    /\ \E k \in DOMAIN grid : grid[k].polygons # <<>>

\* C23: clamp_polygons changes only out-of-bounds values and is
\* idempotent: a coordinate of a fragment's boundary ring already inside
\* the tile's rectangle is left unchanged and any other is moved into it,
\* hole rings are left as they are, every ring keeps its number of
\* coordinates and every boundary ring stays closed, and a second
\* clamp_polygons changes nothing.
C23_ClampIdempotent ==
    [][ op' = "clamp_polygons" =>
          /\ Len(grid') = Len(grid)
          /\ \A n \in DOMAIN grid :
                LET r == Bounds(grid[n].vertices.exterior)
                    old == grid[n].polygons
                    new == grid'[n].polygons
                IN  /\ grid'[n].vertices = grid[n].vertices
                    /\ Len(new) = Len(old)
                    /\ \A k \in DOMAIN old :
                          /\ new[k].interiors = old[k].interiors
                          /\ Len(new[k].exterior) = Len(old[k].exterior)
                          /\ new[k].exterior[1] = new[k].exterior[Len(new[k].exterior)]
                          /\ \A j \in DOMAIN old[k].exterior :
                                IF InRect(old[k].exterior[j], r)
                                THEN new[k].exterior[j] = old[k].exterior[j]
                                ELSE InRect(new[k].exterior[j], r)
          /\ clamp_polygons(grid') = grid'
          /\ op = "clamp_polygons" => grid' = grid
      ]_vars

\* A fragment reaching beyond the tile [0,10] x [0,10] on every side has
\* been clamped onto the tile's rectangle, its hole left as it was.
C23_Witness ==
    /\ op = "clamp_polygons" /\ clips = 0
    /\ Len(grid) = 1
    /\ \E k \in DOMAIN grid[1].polygons :
          /\ grid[1].polygons[k].exterior =
                <<Coord(FromInt(0), FromInt(0)), Coord(FromInt(10), FromInt(0)),
                  Coord(FromInt(10), FromInt(10)), Coord(FromInt(0), FromInt(10)),
                  Coord(FromInt(0), FromInt(0))>>
          /\ grid[1].polygons[k].interiors # <<>>

=============================================================================
